---------------------------- MODULE Spec2Model ----------------------------
(***************************************************************************)
(* Model of the houses-rental-scraping ETL pipeline:                       *)
(*   - BaseExtractor.fetch_page            (etl/extract/base_extractor.py) *)
(*   - AnnouncementsExtractor              (etl/extract/                   *)
(*                                          announcements_extractor.py)    *)
(*   - ETLOrchestrator                     (etl/etl_orchestrator.py)       *)
(*   - CSVLoader / BaseLoader / PostgresLoader   (etl/load/)               *)
(*   - AnnouncementsTransformer / BaseTransformer (etl/transform/)         *)
(*   - CitiesExtractor                     (etl/extract/                   *)
(*                                          cities_extractor.py)           *)
(*   - the errors command                  (cli.py)                        *)
(*   - AnnouncementsScraper / WebScraper   (scrapers/)                     *)
(* Specifications:                                                         *)
(*   SpecFetch      one extractor answering fetch_page calls               *)
(*   SpecCity       AnnouncementsExtractor.extract over the cities of a    *)
(*                  site                                                   *)
(*   Spec           processes running run_streaming_pipeline, and the      *)
(*                  errors command, on one disk                            *)
(*   SpecLoad       the streaming entry points of the two loaders          *)
(*   SpecFull       one process running run_full_pipeline                  *)
(*   SpecTransform  the transformer, the cities parser and the listing     *)
(*                  projection of the relational loader on bounded inputs  *)
(*   SpecRate       threads of one extractor calling fetch_page, with the  *)
(*                  clock of the rate limiter                              *)
(*   SpecLegacy     AnnouncementsScraper.extract_data over the cities of   *)
(*                  a site                                                 *)
(***************************************************************************)
EXTENDS Integers, Sequences, FiniteSets, TLC

(***************************************************************************)
(* Program constants (config/settings.py).                                 *)
(***************************************************************************)
REQUEST_RETRIES == 3

backoff_multiplier == 2

max_backoff == 60

base_delay == 1

MAX_LISTINGS_PER_PAGE == 50

max_workers == 3

CITY_SLEEP_TIME == 5

batch_size == 5

save_frequency == 10

(***************************************************************************)
(* Bounds of the model.                                                    *)
(***************************************************************************)
MaxFetchCalls == 3

\* Pages one city task may request (the loop itself has no bound).
MaxPageRequests == 3

\* Processes started one after the other on the same disk.
MaxRuns == 2

\* Cities of the large site (enough for a periodic checkpoint save).
LargeSite == 10

\* Calls made to the loaders of one process.
MaxLoadCalls == 3

\* Anchors on a cities page.
MaxAnchors == 3

\* SpecRate: threads of the extractor, fetch_page calls per thread, and the
\* last tick of the clock.
RateThreads == 2

MaxRateCalls == 2

MaxTime == 6

(***************************************************************************)
(* State.                                                                  *)
(***************************************************************************)
VARIABLES
    error_urls,       \* BaseExtractor.error_urls: URLs whose fetch was given up
    request_count,    \* BaseExtractor.request_count
    backoff_delay,    \* BaseExtractor.backoff_delay
    last_fetch,       \* record of the most recent fetch_page call (history)
    site,             \* the web site and the environment of the run (input)
    futures,          \* the city tasks submitted to the current thread pool
    pool_size,        \* max_workers of the current ThreadPoolExecutor
    extract_pc,       \* position of the thread that called extract
    all_announcements, \* AnnouncementsExtractor.extract: all_announcements
    data_dirs,        \* which of the directories data/ and data/data/ exist
    cities_csv,       \* the file data/cities.csv (ETLOrchestrator.cities_filepath)
    nested_cities_csv, \* the file data/data/cities.csv
    announcements_csv, \* the file data/data/announcements.csv
    checkpoint_file,  \* the file data/etl_checkpoint.json
    cities_extractor, \* the CitiesExtractor of the orchestrator
    loader_type,      \* ETLOrchestrator.loader_type
    processed_cities, \* ETLOrchestrator.processed_cities
    total_announcements, \* ETLOrchestrator.total_announcements
    is_first_batch,   \* ETLOrchestrator.is_first_batch
    orch_pc,          \* position of the main thread of the process
    cities,           \* run_streaming_pipeline: cities
    remaining_cities, \* run_streaming_pipeline: remaining_cities
    batch_i,          \* extract_streaming: i, start of the current batch
    run_no,           \* number of processes started so far
    result,           \* how the last call ended: return value or exception
    caught,           \* the handler "except Exception" of the run was entered
    resumed_from,     \* processed_cities right after _load_checkpoint (history)
    since_save,       \* new ids merged since the last checkpoint save (history)
    last_save_merged, \* since_save at the last periodic save (history)
    killed_at,        \* the disk when a streaming run was last killed (history)
    steps,            \* run_full_pipeline: the steps invoked so far (history)
    transformed_announcements, \* run_full_pipeline: transformed_announcements
    csv_text,         \* a file written by CSVLoader, as its sequence of lines
    listings,         \* the table listings, by provider_listing_id
    listing_snapshots, \* the table listing_snapshots, in insertion order
    now,              \* the clock: database time; seconds slept between batches
    load_call,        \* record of the most recent loader call (history)
    raw,              \* the input of the most recent transformer/parser call
    cooked,           \* what that call returned
    error_summary,    \* what the cli command "errors" printed last
    last_request_time, \* BaseExtractor.last_request_time (kept in SpecRate)
    threads           \* SpecRate: the threads that call fetch_page

fetchVars == <<error_urls, request_count, backoff_delay, last_fetch>>

poolVars == <<futures, pool_size>>

bulkVars == <<extract_pc, all_announcements>>

diskVars == <<data_dirs, cities_csv, nested_cities_csv, announcements_csv,
              checkpoint_file>>

memVars == <<loader_type, processed_cities, total_announcements,
             is_first_batch>>

runVars == <<orch_pc, cities, remaining_cities, batch_i, run_no, result,
             caught>>

histVars == <<resumed_from, since_save, last_save_merged, killed_at>>

streamVars == <<diskVars, memVars, runVars, histVars, cities_extractor>>

rateVars == <<last_request_time, threads>>

auxVars == <<steps, transformed_announcements, csv_text, listings,
             listing_snapshots, now, load_call, raw, cooked, error_summary,
             rateVars>>

vars == <<error_urls, request_count, backoff_delay, last_fetch, site,
          futures, pool_size, extract_pc, all_announcements, streamVars,
          auxVars>>

Min(a, b) == IF a < b THEN a ELSE b

(***************************************************************************)
(* What the server can answer to one HTTP request:                         *)
(*   "ok"     2xx with a non-empty body                                    *)
(*   "empty"  2xx with an empty body                                       *)
(*   "429"    rate limited                                                 *)
(*   "503"    service unavailable                                          *)
(*   "error"  RequestException: timeout, connection error, or any other    *)
(*            4xx/5xx status turned into HTTPError by raise_for_status     *)
(***************************************************************************)
Responses == {"ok", "empty", "429", "503", "error"}

Failures == {"429", "503", "error"}

Successes == {"ok", "empty"}

\* The answers the server would give to the successive requests of one call:
\* k failing answers (k up to the retry count) and then a successful one.
ResponseSeqs ==
    {p \o <<f>> : p \in UNION {[1..k -> Failures] : k \in 0..REQUEST_RETRIES},
                  f \in Successes}

(***************************************************************************)
(* Values.  A text is a sequence of characters; the characters 0..9 are    *)
(* the digits and 10 stands for a letter.  A Python value that is used as  *)
(* a city id is either a str or an integer (written with its canonical     *)
(* digits): "7" and 7 are different values, as in Python.                  *)
(***************************************************************************)
StrVal(t) == [k |-> "str", v |-> t]

IntVal(t) == [k |-> "int", v |-> t]

IsDigits(t) == t # <<>> /\ \A i \in 1..Len(t) : t[i] \in 0..9

\* int("007") = 7: the canonical digits of a number have no leading zero.
RECURSIVE StripZeros(_)
StripZeros(t) ==
    IF Len(t) > 1 /\ Head(t) = 0 THEN StripZeros(Tail(t)) ELSE t

\* str(x), also what an f-string and DataFrame.to_csv write for x.
py_str(x) == IF x.k = "int" THEN StrVal(x.v) ELSE x

\* The text 'N/A', the blank, a lower-case letter, an upper-case letter and
\* the comma, as character codes.
NA == <<13, 14, 15>>

Space == 16

Lower == 10

Cap == 17

Comma == 18

RECURSIVE lstrip(_)
lstrip(t) == IF t # <<>> /\ Head(t) = Space THEN lstrip(Tail(t)) ELSE t

RECURSIVE rstrip(_)
rstrip(t) ==
    IF t # <<>> /\ t[Len(t)] = Space THEN rstrip(SubSeq(t, 1, Len(t) - 1))
    ELSE t

\* str.strip().
py_strip(t) == rstrip(lstrip(t))

\* BaseTransformer.clean_string: '' for a falsy value and for 'N/A', else
\* the stripped str.
clean_string(x) ==
    IF x.v = <<>> \/ (x.k = "int" /\ x.v = <<0>>) \/ x = StrVal(NA)
    THEN StrVal(<<>>)
    ELSE StrVal(py_strip(py_str(x).v))

\* pandas.read_csv on one column of cells: a column whose cells are all
\* integers is read as integers, any other column as strings.
read_csv_column(cells) ==
    IF \A i \in 1..Len(cells) : IsDigits(cells[i])
    THEN [i \in 1..Len(cells) |-> IntVal(StripZeros(cells[i]))]
    ELSE [i \in 1..Len(cells) |-> StrVal(cells[i])]

(***************************************************************************)
(* The web site: the city codes of the cities page and, per city, the      *)
(* listing pages served for offsets 0, 50, 100, ...  A page has n listing  *)
(* rows and a pagination indicator <<current, total>> ("Pagina X / Y") or  *)
(* none (<<>>).  faults says what can go wrong, loaders which loader types *)
(* the processes are started with.                                         *)
(***************************************************************************)
NoSite == [codes |-> <<>>, pages |-> <<>>, faults |-> {}, loaders |-> {}]

EmptyPage == [n |-> 0, ind |-> <<>>]

build_city_url(city_id, offset) ==
    [pCiudad |-> py_str(city_id).v, offset |-> offset]

\* The page the server sends for a listing URL.
SitePage(url) ==
    LET js == {j \in 1..Len(site.codes) : site.codes[j] = url.pCiudad}
        k  == (url.offset \div MAX_LISTINGS_PER_PAGE) + 1
    IN  IF js = {} THEN EmptyPage
        ELSE LET j == CHOOSE j \in js : \A j2 \in js : j <= j2
             IN  IF k <= Len(site.pages[j]) THEN site.pages[j][k]
                 ELSE EmptyPage

\* _parse_announcements_page: one record per listing row of the page.
parse_announcements_page(url, city) ==
    [r \in 1..SitePage(url).n |->
        [listing |-> <<url.pCiudad, url.offset, r>>, city_id |-> city.id]]

\* Mutant: the comparison is strict, current_page > total_pages.
is_last_page_strict(page) ==
    page.ind # <<>> /\ page.ind[1] > page.ind[2]

\* _is_last_page: indicator found and current_page >= total_pages.
is_last_page(page) ==
    page.ind # <<>> /\ page.ind[1] >= page.ind[2]

(***************************************************************************)
(* Files.  A file that does not exist has exists = FALSE.                  *)
(*   cities file        cells: the id column, one text per city            *)
(*   announcements file headers: number of header rows; header_first: the  *)
(*                      first row is a header; rows[j]: number of data     *)
(*                      rows of the j-th city of the site                  *)
(*   checkpoint file    the JSON document written by _save_checkpoint      *)
(***************************************************************************)
NoCitiesFile == [exists |-> FALSE, cells |-> <<>>]

NoAnnouncementsFile ==
    [exists |-> FALSE, headers |-> 0, header_first |-> FALSE, rows |-> <<>>]

\* No streaming run was killed so far.
NoKill == [killed |-> FALSE]

NoCheckpoint ==
    [exists |-> FALSE, processed_cities |-> {}, total_announcements |-> 0,
     is_first_batch |-> TRUE]

NewExtractor ==
    [error_urls |-> {}, request_count |-> 0, backoff_delay |-> base_delay]

\* No process has been started.
NoOrchestrator ==
    /\ data_dirs = [data |-> FALSE, data_data |-> FALSE]
    /\ cities_csv = NoCitiesFile
    /\ nested_cities_csv = NoCitiesFile
    /\ announcements_csv = NoAnnouncementsFile
    /\ checkpoint_file = NoCheckpoint
    /\ cities_extractor = NewExtractor
    /\ loader_type = "none"
    /\ processed_cities = {}
    /\ total_announcements = 0
    /\ is_first_batch = TRUE
    /\ orch_pc = "off"
    /\ cities = <<>>
    /\ remaining_cities = <<>>
    /\ batch_i = 0
    /\ run_no = 0
    /\ result = "none"
    /\ caught = FALSE
    /\ resumed_from = {}
    /\ since_save = 0
    /\ last_save_merged = 0
    /\ killed_at = NoKill

\* Nothing was loaded, transformed or reported yet.
NoLoadCall == [called |-> FALSE, n |-> 0]

NoCsvText == [exists |-> FALSE, lines |-> <<>>]

NoCall == [fn |-> "none"]

NoSummary == [shown |-> FALSE]

NoAux ==
    /\ steps = <<>>
    /\ transformed_announcements = <<>>
    /\ csv_text = NoCsvText
    /\ listings = <<>>
    /\ listing_snapshots = <<>>
    /\ now = 0
    /\ load_call = NoLoadCall
    /\ raw = NoCall
    /\ cooked = NoCall
    /\ error_summary = NoSummary
    /\ last_request_time = 0
    /\ threads = <<>>

\* BaseLoader._get_file_path: os.path.join(self.data_dir, filename).  The
\* orchestrator passes "data/cities.csv" and "data/announcements.csv", so
\* the loader writes below data/data/.
get_file_path_dir_exists(dirs) == dirs.data /\ dirs.data_data

\* _save_checkpoint: the JSON document of the current streaming state.
save_checkpoint(pcs, total, first) ==
    [exists |-> TRUE, processed_cities |-> pcs, total_announcements |-> total,
     is_first_batch |-> first]

\* AnnouncementsTransformer.transform: city_id of each record is cleaned; a
\* record whose transformation raises is left out (on a site with
\* "bad_rows" every listing carries a field that makes it raise).
transform(anns) ==
    IF "bad_rows" \in site.faults THEN <<>>
    ELSE [r \in 1..Len(anns) |->
            [listing |-> anns[r].listing,
             city_id |-> clean_string(anns[r].city_id)]]

\* Index in the site of the city an announcement row belongs to.
RowCity(ann) ==
    CHOOSE j \in 1..Len(site.codes) : site.codes[j] = ann.listing[1]

\* CSVLoader.load_announcements_streaming on a non-empty batch whose target
\* directory exists: append, with a header if is_first_batch or no file.
csv_append(file, anns, first) ==
    LET write_header == first \/ ~file.exists
        old == IF file.exists THEN file.rows
               ELSE [j \in 1..Len(site.codes) |-> 0]
    IN  [exists |-> TRUE,
         headers |-> file.headers + (IF write_header THEN 1 ELSE 0),
         header_first |-> IF file.exists THEN file.header_first
                          ELSE write_header,
         rows |-> [j \in 1..Len(site.codes) |->
                     old[j] + Cardinality({r \in 1..Len(anns) :
                                              RowCity(anns[r]) = j})]]

FetchUrls == {build_city_url(StrVal(<<1>>), 0), build_city_url(StrVal(<<1>>), 50)}

NoFetch ==
    [called |-> FALSE, url |-> build_city_url(StrVal(<<>>), 0), resps |-> <<>>,
     result |-> "none", requests |-> 0, attempt |-> 0, before |-> {},
     delay_before |-> base_delay]

(***************************************************************************)
(* fetch_page, the loop "for attempt in range(self.retries)".              *)
(* resps[attempt + 1] is the answer to the request of iteration attempt.   *)
(* Result: what is returned ("body", "empty" for an empty text, "absent"   *)
(* for None), the backoff delay left behind, the number of HTTP requests   *)
(* issued, the loop index reached, and whether the URL was recorded as     *)
(* failed.                                                                 *)
(***************************************************************************)
\* Mutant: the doubled delay is not capped.
next_backoff_uncapped(delay) == delay * backoff_multiplier

\* The backoff delay after a 429 answer.
next_backoff(delay) == Min(delay * backoff_multiplier, max_backoff)

RECURSIVE fetch_loop(_, _, _, _)
fetch_loop(resps, attempt, delay, retries) ==
    IF attempt >= retries
    THEN [result |-> "absent", delay |-> delay, requests |-> attempt,
          attempt |-> attempt, failed |-> TRUE]
    ELSE LET r == resps[attempt + 1] IN
         CASE r = "429" ->
                  \* sleep(backoff_delay); double it up to max_backoff; continue
                  fetch_loop(resps, attempt + 1, next_backoff(delay), retries)
           [] r = "503" ->
                  \* sleep(backoff_delay); continue
                  fetch_loop(resps, attempt + 1, delay, retries)
           [] r = "error" ->
                  \* except RequestException: sleep 2^attempt + jitter
                  fetch_loop(resps, attempt + 1, delay, retries)
           [] r = "ok" ->
                  [result |-> "body", delay |-> base_delay,
                   requests |-> attempt + 1, attempt |-> attempt,
                   failed |-> FALSE]
           [] r = "empty" ->
                  [result |-> "empty", delay |-> base_delay,
                   requests |-> attempt + 1, attempt |-> attempt,
                   failed |-> FALSE]

\* Mutant: the loop runs one iteration short, range(self.retries - 1).
fetch_page_short(resps, delay) ==
    fetch_loop(resps, 0, delay, REQUEST_RETRIES - 1)

fetch_page(resps, delay) == fetch_loop(resps, 0, delay, REQUEST_RETRIES)

(***************************************************************************)
(* SpecFetch: one extractor, successive fetch_page calls.                  *)
(***************************************************************************)
InitFetch ==
    /\ error_urls = {}
    /\ request_count = 0
    /\ backoff_delay = base_delay
    /\ last_fetch = NoFetch
    /\ site = NoSite
    /\ futures = <<>>
    /\ pool_size = 0
    /\ extract_pc = "off"
    /\ all_announcements = <<>>
    /\ NoOrchestrator
    /\ NoAux

\* One call of fetch_page(url): _apply_rate_limiting, then the retry loop.
FetchCall ==
    /\ request_count < MaxFetchCalls
    /\ \E url \in FetchUrls, resps \in ResponseSeqs :
         LET out == fetch_page(resps, backoff_delay) IN
         /\ request_count' = request_count + 1
         /\ backoff_delay' = out.delay
         /\ error_urls' = IF out.failed THEN error_urls \cup {url}
                          ELSE error_urls
         /\ last_fetch' = [called |-> TRUE, url |-> url, resps |-> resps,
                           result |-> out.result, requests |-> out.requests,
                           attempt |-> out.attempt, before |-> error_urls,
                           delay_before |-> backoff_delay]
    /\ UNCHANGED <<site, futures, pool_size, extract_pc, all_announcements,
                   streamVars, auxVars>>

NextFetch == FetchCall

SpecFetch == InitFetch /\ [][NextFetch]_vars

(***************************************************************************)
(* City tasks: _extract_city_announcements run by the workers of a         *)
(* ThreadPoolExecutor.  A future is                                        *)
(*   city                the city dict of the task                         *)
(*   state               "queued", "running", "returned" (result is        *)
(*                       city_announcements), "raised", or "consumed" once *)
(*                       as_completed has yielded it                       *)
(*   offset, city_announcements   the locals of the loop                   *)
(*   requested           the offsets requested so far (history)            *)
(*   failed_at           the offset whose fetch failed, -1 if none         *)
(*   exc                 the task raised an exception                      *)
(*   callbacks, passed   how often extract_streaming called the callback   *)
(*                       for this future, and with which list (history)    *)
(*   stored              what the loader answered when the callback handed *)
(*                       it the list: "ok", "failed", or "none" when the   *)
(*                       loader was not called (history)                   *)
(***************************************************************************)
NewFuture(city) ==
    [city |-> city, state |-> "queued", offset |-> 0,
     city_announcements |-> <<>>, requested |-> <<>>, failed_at |-> -1,
     exc |-> FALSE, callbacks |-> 0, passed |-> <<>>, stored |-> "none"]

Running == {i \in 1..Len(futures) : futures[i].state = "running"}

\* Mutant: as_completed also yields futures whose task is still running.
FinishedOrRunning ==
    {i \in 1..Len(futures) :
        futures[i].state \in {"returned", "raised", "running"}}

\* The futures as_completed can yield: their task returned or raised.
Finished == {i \in 1..Len(futures) : futures[i].state \in {"returned", "raised"}}

\* The answers a listing request can get: a reliable site always sends the
\* page; otherwise the page may come after a 429, be empty, or the request
\* may fail for good.
WorkerResponses ==
    IF "net" \in site.faults
    THEN {<<"ok">>, <<"429", "ok">>, <<"empty">>,
          <<"error", "error", "error", "ok">>}
    ELSE {<<"ok">>}

\* An idle worker takes the oldest queued task.
TaskStart(i) ==
    /\ futures[i].state = "queued"
    /\ \A j \in 1..(i - 1) : futures[j].state # "queued"
    /\ Cardinality(Running) < pool_size
    /\ futures' = [futures EXCEPT ![i].state = "running"]
    /\ UNCHANGED <<error_urls, request_count, backoff_delay, last_fetch, site,
                   pool_size, extract_pc, all_announcements, streamVars, auxVars>>

\* Mutant: a failed fetch throws away what the city task collected so far.
city_loop_body_discard(f, out) ==
    LET url  == build_city_url(f.city.id, f.offset)
        anns == f.city_announcements \o parse_announcements_page(url, f.city)
    IN  IF out.result # "body"
        THEN [f EXCEPT !.state = "returned",
                       !.requested = Append(@, f.offset),
                       !.failed_at = f.offset,
                       !.city_announcements = <<>>]
        ELSE IF is_last_page(SitePage(url))
        THEN [f EXCEPT !.state = "returned",
                       !.requested = Append(@, f.offset),
                       !.city_announcements = anns]
        ELSE [f EXCEPT !.offset = f.offset + MAX_LISTINGS_PER_PAGE,
                       !.requested = Append(@, f.offset),
                       !.city_announcements = anns]

\* The body of "while True" in _extract_city_announcements, given what
\* fetch_page(url) returned: the future after this iteration.
city_loop_body(f, out) ==
    LET url  == build_city_url(f.city.id, f.offset)
        anns == f.city_announcements \o parse_announcements_page(url, f.city)
    IN  IF out.result # "body"
        THEN \* "if not html_content: break"
             [f EXCEPT !.state = "returned",
                       !.requested = Append(@, f.offset),
                       !.failed_at = f.offset]
        ELSE IF is_last_page(SitePage(url))
        THEN [f EXCEPT !.state = "returned",
                       !.requested = Append(@, f.offset),
                       !.city_announcements = anns]
        ELSE [f EXCEPT !.offset = f.offset + MAX_LISTINGS_PER_PAGE,
                       !.requested = Append(@, f.offset),
                       !.city_announcements = anns]

\* One iteration of "while True" in _extract_city_announcements.
ExtractCityStep(i) ==
    /\ futures[i].state = "running"
    /\ Len(futures[i].requested) < MaxPageRequests
    /\ \E resps \in WorkerResponses :
         LET url == build_city_url(futures[i].city.id, futures[i].offset)
             out == fetch_page(resps, backoff_delay)
         IN
         /\ request_count' = request_count + 1
         /\ backoff_delay' = out.delay
         /\ error_urls' = IF out.failed THEN error_urls \cup {url}
                          ELSE error_urls
         /\ futures' = [futures EXCEPT ![i] = city_loop_body(futures[i], out)]
    /\ UNCHANGED <<last_fetch, site, pool_size, extract_pc, all_announcements,
                   streamVars, auxVars>>

\* The task ends with an exception other than a RequestException (for
\* instance while parsing a page); future.result() will raise it.
TaskRaises(i) ==
    /\ "task" \in site.faults
    /\ futures[i].state = "running"
    /\ futures' = [futures EXCEPT ![i].state = "raised", ![i].exc = TRUE]
    /\ UNCHANGED <<error_urls, request_count, backoff_delay, last_fetch, site,
                   pool_size, extract_pc, all_announcements, streamVars, auxVars>>

(***************************************************************************)
(* SpecCity: AnnouncementsExtractor.extract (bulk mode) over the cities of *)
(* the site.                                                               *)
(***************************************************************************)
P(n, cur, total) == [n |-> n, ind |-> <<cur, total>>]

PNoInd(n) == [n |-> n, ind |-> <<>>]

CitySites ==
    { [codes |-> <<c1>>, pages |-> <<ps>>, faults |-> fl, loaders |-> {}] :
        c1 \in {<<1>>},
        ps \in { <<P(1, 1, 3), P(2, 2, 3), P(1, 3, 3)>>,
                 <<P(1, 1, 2), P(1, 3, 2), P(1, 3, 3)>>,
                 <<PNoInd(1), PNoInd(0)>> },
        fl \in {{}, {"net", "task"}} }
    \cup
    { [codes |-> <<<<1>>, <<2>>>>, pages |-> <<pa, pb>>, faults |-> fl,
       loaders |-> {}] :
        pa \in { <<P(2, 1, 2), P(1, 2, 2)>>, <<P(1, 1, 1), P(1, 2, 1)>> },
        pb \in { <<P(1, 1, 1)>>, <<P(0, 0, 0)>> },
        fl \in {{}, {"net", "task"}} }

\* The city dicts handed to extract: the ids are the codes of the cities page.
SiteCities(st) == [j \in 1..Len(st.codes) |-> [id |-> StrVal(st.codes[j])]]

InitCity ==
    /\ error_urls = {}
    /\ request_count = 0
    /\ backoff_delay = base_delay
    /\ last_fetch = NoFetch
    /\ site \in CitySites
    /\ futures = <<>>
    /\ pool_size = 0
    /\ extract_pc = "idle"
    /\ all_announcements = <<>>
    /\ NoOrchestrator
    /\ NoAux

\* extract: "futures = [executor.submit(...) for city in cities]".
ExtractSubmit ==
    /\ extract_pc = "idle"
    /\ futures' = [j \in 1..Len(site.codes) |-> NewFuture(SiteCities(site)[j])]
    /\ pool_size' = max_workers
    /\ extract_pc' = "collecting"
    /\ UNCHANGED <<error_urls, request_count, backoff_delay, last_fetch, site,
                   all_announcements, streamVars, auxVars>>

\* extract: one iteration of "for future in as_completed(futures)".
ExtractCollect(i) ==
    /\ extract_pc = "collecting"
    /\ i \in Finished
    /\ all_announcements' =
         IF futures[i].state = "returned"
         THEN all_announcements \o futures[i].city_announcements
         ELSE all_announcements
    /\ futures' = [futures EXCEPT ![i].state = "consumed"]
    /\ UNCHANGED <<error_urls, request_count, backoff_delay, last_fetch, site,
                   pool_size, extract_pc, streamVars, auxVars>>

\* extract: every future was yielded; "return all_announcements".
ExtractReturn ==
    /\ extract_pc = "collecting"
    /\ \A i \in 1..Len(futures) : futures[i].state = "consumed"
    /\ extract_pc' = "returned"
    /\ UNCHANGED <<error_urls, request_count, backoff_delay, last_fetch, site,
                   futures, pool_size, all_announcements, streamVars, auxVars>>

NextCity ==
    \/ ExtractSubmit
    \/ \E i \in 1..Len(futures) : TaskStart(i)
    \/ \E i \in 1..Len(futures) : ExtractCityStep(i)
    \/ \E i \in 1..Len(futures) : TaskRaises(i)
    \/ \E i \in 1..Len(futures) : ExtractCollect(i)
    \/ ExtractReturn

SpecCity == InitCity /\ [][NextCity]_vars

(***************************************************************************)
(* Spec: processes started one after the other on one disk; each builds an *)
(* ETLOrchestrator and calls run_streaming_pipeline.                       *)
(***************************************************************************)
page1 == [n |-> 1, ind |-> <<1, 1>>]

\* The decimal digits of a positive number.
RECURSIVE Digits(_)
Digits(n) == IF n < 10 THEN <<n>> ELSE Digits(n \div 10) \o <<n % 10>>

LoaderTypes == {"csv", "postgres", "sheets", "invalid"}

\* Sites of three cities (numeric codes, or one code with a letter), the
\* second city with two pages and the third without listings, and a large
\* reliable site with one listing per city.  faults says what can go wrong:
\*   "net"       a request fails or is throttled
\*   "task"      a city task raises
\*   "submit"    the thread pool cannot start a task (RuntimeError)
\*   "acquire"   getting the cities raises
\*   "db"        the relational loader fails
\*   "interrupt" the user interrupts the process at any moment
\*   "interrupt_between"  the user interrupts the process between batches
SmallPages == << <<page1>>, <<P(1, 1, 2), P(1, 2, 2)>>, <<P(0, 1, 1)>> >>

SmallCodes == { << <<1>>, <<2>>, <<3>> >>, << <<1>>, <<10, 1>>, <<3>> >> }

StreamSites ==
    { [codes |-> cs, pages |-> SmallPages, faults |-> env[1],
       loaders |-> env[2]] :
        cs \in SmallCodes,
        env \in { <<{"interrupt"}, LoaderTypes>>,
                  <<{"net"}, {"csv"}>>,
                  <<{"task", "submit", "acquire"}, {"csv"}>>,
                  <<{"db"}, {"postgres"}>> } }
    \cup
    { [codes |-> [j \in 1..LargeSite |-> Digits(j)],
       pages |-> [j \in 1..LargeSite |-> <<page1>>],
       faults |-> {"submit", "interrupt_between"}, loaders |-> {"csv"}] }

Init ==
    /\ error_urls = {}
    /\ request_count = 0
    /\ backoff_delay = base_delay
    /\ last_fetch = NoFetch
    /\ site \in StreamSites
    /\ futures = <<>>
    /\ pool_size = 0
    /\ extract_pc = "off"
    /\ all_announcements = <<>>
    \* the disk: data/ may exist, with or without data/data/ and cities.csv
    /\ data_dirs \in {[data |-> FALSE, data_data |-> FALSE],
                      [data |-> TRUE, data_data |-> FALSE],
                      [data |-> TRUE, data_data |-> TRUE]}
    /\ cities_csv \in {NoCitiesFile} \cup
                      (IF data_dirs.data
                       THEN {[exists |-> TRUE, cells |-> site.codes]}
                       ELSE {})
    /\ nested_cities_csv = NoCitiesFile
    /\ announcements_csv = NoAnnouncementsFile
    /\ checkpoint_file = NoCheckpoint
    /\ cities_extractor = NewExtractor
    /\ loader_type = "none"
    /\ processed_cities = {}
    /\ total_announcements = 0
    /\ is_first_batch = TRUE
    /\ orch_pc = "off"
    /\ cities = <<>>
    /\ remaining_cities = <<>>
    /\ batch_i = 0
    /\ run_no = 0
    /\ result = "none"
    /\ caught = FALSE
    /\ resumed_from = {}
    /\ since_save = 0
    /\ last_save_merged = 0
    /\ killed_at = NoKill
    /\ NoAux

\* The loader type of ETLOrchestrator() without an argument.
DEFAULT_LOADER == "csv"

\* Mutant: the CSVLoader for the cities is built before the loader factory
\* is asked, so data/ is created even for an unknown loader type.
orchestrator_init_cities_loader_first(lt, dirs) ==
    [raised |-> lt \notin {"csv", "postgres"},
     dirs |-> [dirs EXCEPT !.data = TRUE]]

\* ETLOrchestrator.__init__ and _create_loader: for "csv" and "postgres" a
\* loader is built, whose constructor makes sure data/ exists; any other
\* type raises ValueError before anything is built that touches the disk.
orchestrator_init(lt, dirs) ==
    IF lt \in {"csv", "postgres"}
    THEN [raised |-> FALSE, dirs |-> [dirs EXCEPT !.data = TRUE]]
    ELSE [raised |-> TRUE, dirs |-> dirs]

\* A new process: ETLOrchestrator(loader_type).
Construct ==
    /\ orch_pc \in {"off", "ended"}
    /\ run_no < MaxRuns
    /\ \E lt \in site.loaders :
         LET o == orchestrator_init(lt, data_dirs) IN
         /\ loader_type' = lt
         /\ data_dirs' = o.dirs
         /\ orch_pc' = IF o.raised THEN "ended" ELSE "ready"
         /\ result' = IF o.raised THEN "ValueError" ELSE "none"
    /\ run_no' = run_no + 1
    /\ caught' = FALSE
    /\ error_urls' = {}
    /\ request_count' = 0
    /\ backoff_delay' = base_delay
    /\ cities_extractor' = NewExtractor
    /\ processed_cities' = {}
    /\ total_announcements' = 0
    /\ is_first_batch' = TRUE
    /\ futures' = <<>>
    /\ pool_size' = 0
    /\ cities' = <<>>
    /\ remaining_cities' = <<>>
    /\ batch_i' = 0
    /\ resumed_from' = {}
    /\ since_save' = 0
    /\ last_save_merged' = 0
    /\ killed_at' = killed_at
    /\ error_summary' = NoSummary
    /\ now' = 0
    /\ UNCHANGED <<last_fetch, site, bulkVars, cities_csv, nested_cities_csv,
                   announcements_csv, checkpoint_file, steps,
                   transformed_announcements, csv_text, listings,
                   listing_snapshots, load_call, raw, cooked, rateVars>>

\* ETLOrchestrator.get_error_summary, given the two extractors' error_urls.
get_error_summary(cities_errors, announcements_errors) ==
    [cities_extractor_errors |-> Cardinality(cities_errors),
     announcements_extractor_errors |-> Cardinality(announcements_errors),
     failed_urls |-> [cities |-> cities_errors,
                      announcements |-> announcements_errors]]

\* cli.show_error_summary, the `errors` command, run as a process of its own
\* after a pipeline process has ended: it builds an ETLOrchestrator and
\* prints that orchestrator's error summary.  last_run records the
\* error_urls the extractors of the ended process held.
ShowErrorSummary ==
    /\ orch_pc = "ended"
    /\ LET o == orchestrator_init(DEFAULT_LOADER, data_dirs) IN
         /\ data_dirs' = o.dirs
         /\ loader_type' = DEFAULT_LOADER
    /\ error_urls' = {}
    /\ request_count' = 0
    /\ backoff_delay' = base_delay
    /\ cities_extractor' = NewExtractor
    /\ processed_cities' = {}
    /\ total_announcements' = 0
    /\ is_first_batch' = TRUE
    /\ futures' = <<>>
    /\ pool_size' = 0
    /\ cities' = <<>>
    /\ remaining_cities' = <<>>
    /\ batch_i' = 0
    /\ caught' = FALSE
    /\ error_summary' =
           [shown |-> TRUE,
            summary |-> get_error_summary(cities_extractor'.error_urls,
                                          error_urls'),
            last_run |-> [cities |-> cities_extractor.error_urls,
                          announcements |-> error_urls]]
    /\ orch_pc' = "off"
    /\ result' = "none"
    /\ now' = 0
    /\ UNCHANGED <<last_fetch, site, bulkVars, cities_csv, nested_cities_csv,
                   announcements_csv, checkpoint_file, run_no, histVars,
                   steps, transformed_announcements, csv_text, listings,
                   listing_snapshots, load_call, raw, cooked, rateVars>>

\* run_streaming_pipeline: _load_checkpoint.
LoadCheckpoint ==
    /\ orch_pc = "ready"
    /\ processed_cities' = IF checkpoint_file.exists
                           THEN checkpoint_file.processed_cities ELSE {}
    /\ total_announcements' = IF checkpoint_file.exists
                              THEN checkpoint_file.total_announcements ELSE 0
    /\ is_first_batch' = IF checkpoint_file.exists
                         THEN checkpoint_file.is_first_batch ELSE TRUE
    /\ resumed_from' = processed_cities'
    /\ since_save' = 0
    /\ orch_pc' = "loaded"
    /\ UNCHANGED <<fetchVars, site, poolVars, bulkVars, diskVars,
                   cities_extractor, loader_type, cities, remaining_cities,
                   batch_i, run_no, result, caught, last_save_merged, killed_at,
                   auxVars>>

\* The run ends in "except Exception": _save_checkpoint, return False.
FailWithCheckpoint ==
    /\ checkpoint_file' = save_checkpoint(processed_cities, total_announcements,
                                          is_first_batch)
    /\ since_save' = 0
    /\ orch_pc' = "ended"
    /\ result' = "False"
    /\ caught' = TRUE

\* _get_or_extract_cities: data/cities.csv exists and is read with pandas.
GetCitiesFromFile ==
    /\ orch_pc = "loaded"
    /\ cities_csv.exists
    /\ cities' = [j \in 1..Len(cities_csv.cells) |->
                    [id |-> read_csv_column(cities_csv.cells)[j]]]
    /\ orch_pc' = "have_cities"
    /\ UNCHANGED <<fetchVars, site, poolVars, bulkVars, diskVars,
                   cities_extractor, memVars, remaining_cities, batch_i,
                   run_no, result, caught, histVars, auxVars>>

\* _get_or_extract_cities: no data/cities.csv; the cities page is fetched,
\* transformed and saved through CSVLoader.load_cities.
GetCitiesExtract ==
    /\ orch_pc = "loaded"
    /\ ~cities_csv.exists
    /\ \E resps \in WorkerResponses :
         LET out == fetch_page(resps, cities_extractor.backoff_delay)
             url == build_city_url(StrVal(<<>>), 0)
             transformed == [j \in 1..Len(site.codes) |->
                               [id |-> clean_string(StrVal(site.codes[j]))]]
             saved == get_file_path_dir_exists(data_dirs)
         IN
         /\ cities_extractor' =
              [error_urls |-> IF out.failed
                              THEN cities_extractor.error_urls \cup {url}
                              ELSE cities_extractor.error_urls,
               request_count |-> cities_extractor.request_count + 1,
               backoff_delay |-> out.delay]
         /\ IF out.result = "body" /\ saved
            THEN /\ nested_cities_csv' =
                      [exists |-> TRUE,
                       cells |-> [j \in 1..Len(transformed) |->
                                     py_str(transformed[j].id).v]]
                 /\ cities' = transformed
                 /\ orch_pc' = "have_cities"
                 /\ result' = result
            ELSE \* no cities page, or load_cities failed: return False
                 /\ nested_cities_csv' = nested_cities_csv
                 /\ cities' = <<>>
                 /\ orch_pc' = "ended"
                 /\ result' = "False"
    /\ UNCHANGED <<fetchVars, site, poolVars, bulkVars, data_dirs, cities_csv,
                   announcements_csv, checkpoint_file, memVars,
                   remaining_cities, batch_i, run_no, caught, histVars, auxVars>>

\* _get_or_extract_cities raises (for instance while parsing the page).
GetCitiesRaises ==
    /\ orch_pc = "loaded"
    /\ "acquire" \in site.faults
    /\ FailWithCheckpoint
    /\ UNCHANGED <<fetchVars, site, poolVars, bulkVars, data_dirs, cities_csv,
                   nested_cities_csv, announcements_csv, cities_extractor,
                   memVars, cities, remaining_cities, batch_i, run_no,
                   resumed_from, last_save_merged, killed_at, auxVars>>

\* "remaining_cities = [city for city in cities if city['id'] not in
\* self.processed_cities]"; nothing left: return True.
FilterCities ==
    /\ orch_pc = "have_cities"
    /\ LET keep == SelectSeq(cities, LAMBDA c : c.id \notin processed_cities)
       IN  /\ remaining_cities' = keep
           /\ orch_pc' = IF keep = <<>> THEN "ended" ELSE "batch"
           /\ result' = IF keep = <<>> THEN "True" ELSE result
    /\ batch_i' = 0
    /\ UNCHANGED <<fetchVars, site, poolVars, bulkVars, diskVars,
                   cities_extractor, memVars, cities, run_no, caught,
                   histVars, auxVars>>

\* extract_streaming: the next batch is submitted to a new thread pool.
SubmitBatch ==
    /\ orch_pc = "batch"
    /\ LET batch == SubSeq(remaining_cities, batch_i + 1,
                           Min(batch_i + batch_size, Len(remaining_cities)))
       IN  /\ futures' = [j \in 1..Len(batch) |-> NewFuture(batch[j])]
           /\ pool_size' = Min(max_workers, Len(batch))
    /\ orch_pc' = "collecting"
    /\ UNCHANGED <<fetchVars, site, bulkVars, diskVars, cities_extractor,
                   memVars, cities, remaining_cities, batch_i, run_no, result,
                   caught, histVars, auxVars>>

\* extract_streaming: executor.submit raises outside the inner try (the
\* thread of a task cannot be started); run_streaming_pipeline catches it.
SubmitRaises ==
    /\ orch_pc = "batch"
    /\ "submit" \in site.faults
    /\ FailWithCheckpoint
    /\ UNCHANGED <<fetchVars, site, poolVars, bulkVars, data_dirs, cities_csv,
                   nested_cities_csv, announcements_csv, cities_extractor,
                   memVars, cities, remaining_cities, batch_i, run_no,
                   resumed_from, last_save_merged, killed_at, auxVars>>

\* Mutant: the callback is called for every returned list, also an empty one.
callback_called_always(f) == f.state = "returned"

\* extract_streaming: "if callback and announcements: callback(announcements)"
\* after future.result() returned.
callback_called(f) == f.state = "returned" /\ f.city_announcements # <<>>

\* _load_announcements_streaming: does the loader report success?
load_succeeds(lt, dirs, db_ok) ==
    IF lt = "csv" THEN get_file_path_dir_exists(dirs)
    ELSE IF lt = "postgres" THEN db_ok
    ELSE FALSE

\* Mutant: the size is compared with one more than the save frequency.
save_due_late(pcs, total) == Cardinality(pcs) % (save_frequency + 1) = 0

\* "if len(self.processed_cities) % STREAMING_CONFIG['save_frequency'] == 0".
save_due(pcs, total) == Cardinality(pcs) % save_frequency = 0

\* Mutant: the answer of the loader is ignored.
batch_saved_whatever_the_loader(transformed, ok) == transformed # <<>>

\* "if transformed_announcements:" and
\* "if self._load_announcements_streaming(...):".
batch_saved(transformed, ok) == transformed # <<>> /\ ok

\* Mutant: every stored batch counts as one announcement.
count_batch_as_one(total, transformed) == total + 1

\* "self.total_announcements += len(transformed_announcements)".
count_batch(total, transformed) == total + Len(transformed)

\* process_announcements_batch: the streaming state, the announcements
\* file and the checkpoint file after the callback ran on a non-empty list.
process_announcements_batch(anns, db_ok) ==
    LET transformed == transform(anns)
        ok       == load_succeeds(loader_type, data_dirs, db_ok)
        city_ids == {transformed[r].city_id : r \in 1..Len(transformed)}
        pcs      == processed_cities \cup city_ids
        total    == count_batch(total_announcements, transformed)
        merged   == since_save + Cardinality(city_ids \ processed_cities)
        stored   == IF transformed = <<>> THEN "none"
                    ELSE IF ok THEN "ok" ELSE "failed"
    IN  IF ~batch_saved(transformed, ok)
        THEN \* nothing to save, or "Failed to save announcements batch"
             [stored |-> stored,
              processed_cities |-> processed_cities,
              total_announcements |-> total_announcements,
              is_first_batch |-> is_first_batch,
              announcements_csv |-> announcements_csv,
              checkpoint_file |-> checkpoint_file,
              since_save |-> since_save,
              last_save_merged |-> last_save_merged]
        ELSE [stored |-> stored,
              processed_cities |-> pcs,
              total_announcements |-> total,
              is_first_batch |-> FALSE,
              announcements_csv |->
                  IF loader_type = "csv"
                  THEN csv_append(announcements_csv, transformed, is_first_batch)
                  ELSE announcements_csv,
              checkpoint_file |->
                  IF save_due(pcs, total)
                  THEN save_checkpoint(pcs, total, FALSE)
                  ELSE checkpoint_file,
              since_save |-> IF save_due(pcs, total) THEN 0 ELSE merged,
              last_save_merged |-> IF save_due(pcs, total) THEN merged
                                   ELSE last_save_merged]

\* extract_streaming: one iteration of "for future in as_completed(futures)":
\* future.result(), and the callback if the list is not empty.  An exception
\* of the task is logged and the loop goes on.
StreamCollect(i) ==
    /\ orch_pc = "collecting"
    /\ i \in Finished
    /\ \E db_ok \in (IF "db" \in site.faults THEN BOOLEAN ELSE {TRUE}) :
         LET f   == futures[i]
             new == process_announcements_batch(f.city_announcements, db_ok)
         IN
         IF callback_called(f)
         THEN /\ processed_cities' = new.processed_cities
              /\ total_announcements' = new.total_announcements
              /\ is_first_batch' = new.is_first_batch
              /\ announcements_csv' = new.announcements_csv
              /\ checkpoint_file' = new.checkpoint_file
              /\ since_save' = new.since_save
              /\ last_save_merged' = new.last_save_merged
              /\ futures' = [futures EXCEPT ![i].state = "consumed",
                                            ![i].callbacks = @ + 1,
                                            ![i].passed = f.city_announcements,
                                            ![i].stored = new.stored]
         ELSE /\ futures' = [futures EXCEPT ![i].state = "consumed"]
              /\ UNCHANGED <<processed_cities, total_announcements,
                             is_first_batch, announcements_csv,
                             checkpoint_file, since_save, last_save_merged>>
    /\ killed_at' = killed_at
    /\ UNCHANGED <<fetchVars, site, pool_size, bulkVars, data_dirs, cities_csv,
                   nested_cities_csv, cities_extractor, loader_type, runVars,
                   resumed_from, auxVars>>

\* Mutant: the pool is left as soon as one future was consumed.
batch_done_after_first(fs) == \E i \in 1..Len(fs) : fs[i].state = "consumed"

\* The "with ThreadPoolExecutor" block of a batch is left: as_completed
\* yielded every future and the loop body ran for each.
batch_done(fs) == \A i \in 1..Len(fs) : fs[i].state = "consumed"

\* extract_streaming: the batch is done and more cities are left: sleep
\* CITY_SLEEP_TIME (the clock advances by it) and go on with the next batch.
NextBatch ==
    /\ orch_pc = "collecting"
    /\ batch_done(futures)
    /\ batch_i + batch_size < Len(remaining_cities)
    /\ batch_i' = batch_i + batch_size
    /\ now' = now + CITY_SLEEP_TIME
    /\ orch_pc' = "batch"
    /\ UNCHANGED <<fetchVars, site, poolVars, bulkVars, diskVars,
                   cities_extractor, memVars, cities, remaining_cities,
                   run_no, result, caught, histVars, steps, transformed_announcements, csv_text,
                   listings, listing_snapshots, load_call, raw, cooked,
                   error_summary, rateVars>>

\* The last batch is done: extract_streaming returns,
\* _process_announcements_streaming returns True, the checkpoint file is
\* removed and run_streaming_pipeline returns True.
StreamingDone ==
    /\ orch_pc = "collecting"
    /\ batch_done(futures)
    /\ batch_i + batch_size >= Len(remaining_cities)
    /\ checkpoint_file' = NoCheckpoint
    /\ orch_pc' = "ended"
    /\ result' = "True"
    /\ UNCHANGED <<fetchVars, site, poolVars, bulkVars, data_dirs, cities_csv,
                   nested_cities_csv, announcements_csv, cities_extractor,
                   memVars, cities, remaining_cities, batch_i, run_no, caught,
                   histVars, auxVars>>

\* The user interrupts the process (Ctrl-C): KeyboardInterrupt is not an
\* Exception, so no handler of the pipeline runs; cli.main exits.  When
\* run_streaming_pipeline was under way, killed_at keeps the loader type
\* and what was on disk at that moment.
Interrupt ==
    /\ \/ /\ "interrupt" \in site.faults
          /\ orch_pc \in {"ready", "loaded", "have_cities", "batch",
                          "collecting"}
       \/ /\ "interrupt_between" \in site.faults
          /\ orch_pc = "collecting"
          /\ \A i \in 1..Len(futures) : futures[i].state = "consumed"
    /\ orch_pc' = "ended"
    /\ result' = "KeyboardInterrupt"
    /\ killed_at' = IF orch_pc = "ready" THEN killed_at
                    ELSE [killed |-> TRUE, loader |-> loader_type,
                          announcements_csv |-> announcements_csv,
                          checkpoint |-> checkpoint_file.exists]
    /\ UNCHANGED <<fetchVars, site, poolVars, bulkVars, diskVars,
                   cities_extractor, memVars, cities, remaining_cities,
                   batch_i, run_no, caught, resumed_from, since_save,
                   last_save_merged, auxVars>>

Next ==
    \/ Construct
    \/ LoadCheckpoint
    \/ GetCitiesFromFile
    \/ GetCitiesExtract
    \/ GetCitiesRaises
    \/ FilterCities
    \/ SubmitBatch
    \/ SubmitRaises
    \/ \E i \in 1..Len(futures) : TaskStart(i)
    \/ \E i \in 1..Len(futures) : ExtractCityStep(i)
    \/ \E i \in 1..Len(futures) : TaskRaises(i)
    \/ \E i \in 1..Len(futures) : StreamCollect(i)
    \/ NextBatch
    \/ StreamingDone
    \/ Interrupt
    \/ ShowErrorSummary

Spec == Init /\ [][Next]_vars

(***************************************************************************)
(* SpecLoad: one process with a CSVLoader and a PostgresLoader; the        *)
(* streaming entry points of both are called with batches of transformed   *)
(* announcements.  An announcement is reduced to its id and price; a line  *)
(* of the CSV file is a header line or the row of one announcement; the    *)
(* clock ticks once per call.                                              *)
(***************************************************************************)
Ann(id, price) == [id |-> id, price |-> price]

HeaderLine == [header |-> TRUE]

RowLine(a) == [header |-> FALSE, ann |-> a]

\* The batches handed to a loader: empty, one announcement, two different
\* listings, and the same listing twice in one batch.
LoadBatches ==
    {<<>>}
    \cup {<<Ann(i, p)>> : i \in {1, 2}, p \in {100, 200}}
    \cup {<<Ann(1, 100), Ann(2, 200)>>, <<Ann(1, 100), Ann(1, 200)>>}

\* Mutant: every streaming call writes the header.
csv_write_header_always(first, exists) == TRUE

\* "write_header = is_first_batch or not os.path.exists(file_path)".
csv_write_header(first, exists) == first \/ ~exists

\* CSVLoader.load_announcements_streaming(announcements_data, filename,
\* is_first_batch) with filename as the orchestrator passes it: the return
\* value and the file afterwards.
csv_load_announcements_streaming(file, dirs, batch, first) ==
    IF batch = <<>>
    THEN [ret |-> TRUE, file |-> file]
    ELSE IF ~get_file_path_dir_exists(dirs)
    THEN \* to_csv raises OSError, caught: return False
         [ret |-> FALSE, file |-> file]
    ELSE [ret |-> TRUE,
          file |-> [exists |-> TRUE,
                    lines |-> file.lines
                        \o (IF csv_write_header(first, file.exists)
                            THEN <<HeaderLine>> ELSE <<>>)
                        \o [r \in 1..Len(batch) |-> RowLine(batch[r])]]]

\* Position in the table listings of the row with this provider_listing_id,
\* 0 if there is none.
ListingRow(tbl, id) ==
    IF \E k \in 1..Len(tbl) : tbl[k].provider_listing_id = id
    THEN CHOOSE k \in 1..Len(tbl) : tbl[k].provider_listing_id = id
    ELSE 0

\* Mutant: the upsert also overwrites first_seen.
RECURSIVE load_listings_all_columns(_, _, _)
load_listings_all_columns(tbl, data, t) ==
    IF data = <<>> THEN tbl
    ELSE LET l == Head(data)
             k == ListingRow(tbl, l.id)
         IN  load_listings_all_columns(
                 IF k = 0
                 THEN Append(tbl, [provider_listing_id |-> l.id,
                                   price |-> l.price,
                                   first_seen |-> t, last_seen |-> t])
                 ELSE [tbl EXCEPT ![k] = [@ EXCEPT !.price = l.price,
                                                   !.first_seen = t,
                                                   !.last_seen = t]],
                 Tail(data), t)

\* PostgresLoader._load_listings: "INSERT ... ON CONFLICT
\* (provider_listing_id) DO UPDATE SET" every column but the key and
\* first_seen.
RECURSIVE load_listings(_, _, _)
load_listings(tbl, data, t) ==
    IF data = <<>> THEN tbl
    ELSE LET l == Head(data)
             k == ListingRow(tbl, l.id)
         IN  load_listings(
                 IF k = 0
                 THEN Append(tbl, [provider_listing_id |-> l.id,
                                   price |-> l.price,
                                   first_seen |-> t, last_seen |-> t])
                 ELSE [tbl EXCEPT ![k] = [@ EXCEPT !.price = l.price,
                                                   !.last_seen = t]],
                 Tail(data), t)

\* PostgresLoader._load_snapshots: plain INSERT; listing_id is the row of
\* the listing (looked up after the upsert).
load_snapshots(snaps, data, tbl, t) ==
    snaps \o [r \in 1..Len(data) |->
                [listing_id |-> ListingRow(tbl, data[r].id),
                 provider_listing_id |-> data[r].id,
                 scraped_at |-> t,
                 price |-> data[r].price]]

\* One INSERT ... ON CONFLICT DO UPDATE cannot touch a row twice: a batch
\* with the same provider_listing_id twice makes the statement fail.
SameIdTwice(data) ==
    \E a, b \in 1..Len(data) : a # b /\ data[a].id = data[b].id

\* PostgresLoader.load_announcements_streaming: the return value and the
\* tables afterwards; db_ok says whether the database can be reached.
pg_load_announcements_streaming(tbl, snaps, batch, t, db_ok) ==
    IF batch = <<>>
    THEN [ret |-> TRUE, listings |-> tbl, listing_snapshots |-> snaps]
    ELSE IF ~db_ok \/ SameIdTwice(batch)
    THEN [ret |-> FALSE, listings |-> tbl, listing_snapshots |-> snaps]
    ELSE LET new == load_listings(tbl, batch, t)
         IN  [ret |-> TRUE, listings |-> new,
              listing_snapshots |-> load_snapshots(snaps, batch, new, t)]

InitLoad ==
    /\ error_urls = {}
    /\ request_count = 0
    /\ backoff_delay = base_delay
    /\ last_fetch = NoFetch
    /\ site = NoSite
    /\ futures = <<>>
    /\ pool_size = 0
    /\ extract_pc = "off"
    /\ all_announcements = <<>>
    \* the loaders were built: data/ exists; data/data/ may exist, with or
    \* without a file left by an earlier process
    /\ data_dirs \in {[data |-> TRUE, data_data |-> b] : b \in BOOLEAN}
    /\ cities_csv = NoCitiesFile
    /\ nested_cities_csv = NoCitiesFile
    /\ announcements_csv = NoAnnouncementsFile
    /\ checkpoint_file = NoCheckpoint
    /\ cities_extractor = NewExtractor
    /\ loader_type = "none"
    /\ processed_cities = {}
    /\ total_announcements = 0
    /\ is_first_batch = TRUE
    /\ orch_pc = "off"
    /\ cities = <<>>
    /\ remaining_cities = <<>>
    /\ batch_i = 0
    /\ run_no = 0
    /\ result = "none"
    /\ caught = FALSE
    /\ resumed_from = {}
    /\ since_save = 0
    /\ last_save_merged = 0
    /\ killed_at = NoKill
    /\ steps = <<>>
    /\ transformed_announcements = <<>>
    /\ csv_text \in {NoCsvText} \cup
                    (IF data_dirs.data_data
                     THEN {[exists |-> TRUE,
                            lines |-> <<HeaderLine, RowLine(Ann(2, 100))>>]}
                     ELSE {})
    /\ listings = <<>>
    /\ listing_snapshots = <<>>
    /\ now = 0
    /\ load_call = NoLoadCall
    /\ raw = NoCall
    /\ cooked = NoCall
    /\ error_summary = NoSummary
    /\ last_request_time = 0
    /\ threads = <<>>

\* CSVLoader.load_announcements_streaming is called.
CsvLoadStreaming ==
    /\ load_call.n < MaxLoadCalls
    /\ \E batch \in LoadBatches, first \in BOOLEAN :
         LET out == csv_load_announcements_streaming(csv_text, data_dirs,
                                                     batch, first)
         IN  /\ csv_text' = out.file
             /\ load_call' = [called |-> TRUE, n |-> load_call.n + 1,
                              fn |-> "csv", batch |-> batch, first |-> first,
                              ret |-> out.ret, csv_before |-> csv_text,
                              listings_before |-> listings,
                              snapshots_before |-> listing_snapshots]
    /\ now' = now + 1
    /\ UNCHANGED <<fetchVars, site, poolVars, bulkVars, streamVars, steps,
                   transformed_announcements, listings, listing_snapshots,
                   raw, cooked, error_summary,
                   rateVars>>

\* PostgresLoader.load_announcements_streaming is called.
PgLoadStreaming ==
    /\ load_call.n < MaxLoadCalls
    /\ \E batch \in LoadBatches, db_ok \in BOOLEAN :
         LET out == pg_load_announcements_streaming(listings,
                        listing_snapshots, batch, now + 1, db_ok)
         IN  /\ listings' = out.listings
             /\ listing_snapshots' = out.listing_snapshots
             /\ load_call' = [called |-> TRUE, n |-> load_call.n + 1,
                              fn |-> "postgres", batch |-> batch,
                              first |-> FALSE,
                              ret |-> out.ret, csv_before |-> csv_text,
                              listings_before |-> listings,
                              snapshots_before |-> listing_snapshots]
    /\ now' = now + 1
    /\ UNCHANGED <<fetchVars, site, poolVars, bulkVars, streamVars, steps,
                   transformed_announcements, csv_text, raw, cooked,
                   error_summary, rateVars>>

NextLoad == CsvLoadStreaming \/ PgLoadStreaming

SpecLoad == InitLoad /\ [][NextLoad]_vars

(***************************************************************************)
(* SpecFull: one process that has built an ETLOrchestrator and calls       *)
(* run_full_pipeline.                                                      *)
(***************************************************************************)
FullSteps == <<"cities", "extract", "transform", "load">>

FullSites ==
    { [codes |-> << <<1>>, <<2>>, <<3>> >>, pages |-> SmallPages,
       faults |-> env[1], loaders |-> env[2]] :
        env \in { <<{}, {"csv"}>>,
                  <<{"net"}, {"csv"}>>,
                  <<{"bad_rows"}, {"csv"}>>,
                  <<{"task", "acquire"}, {"csv"}>>,
                  <<{"db"}, {"postgres"}>> } }

InitFull ==
    /\ error_urls = {}
    /\ request_count = 0
    /\ backoff_delay = base_delay
    /\ last_fetch = NoFetch
    /\ site \in FullSites
    /\ futures = <<>>
    /\ pool_size = 0
    /\ extract_pc = "off"
    /\ all_announcements = <<>>
    /\ data_dirs \in {[data |-> TRUE, data_data |-> b] : b \in BOOLEAN}
    /\ cities_csv \in {NoCitiesFile, [exists |-> TRUE, cells |-> site.codes]}
    /\ nested_cities_csv = NoCitiesFile
    /\ announcements_csv = NoAnnouncementsFile
    /\ checkpoint_file = NoCheckpoint
    /\ cities_extractor = NewExtractor
    /\ loader_type \in site.loaders
    /\ processed_cities = {}
    /\ total_announcements = 0
    /\ is_first_batch = TRUE
    /\ orch_pc = "full_start"
    /\ cities = <<>>
    /\ remaining_cities = <<>>
    /\ batch_i = 0
    /\ run_no = 1
    /\ result = "none"
    /\ caught = FALSE
    /\ resumed_from = {}
    /\ since_save = 0
    /\ last_save_merged = 0
    /\ killed_at = NoKill
    /\ NoAux

\* Mutant: an empty result does not stop the pipeline.
step_fails_never(res) == FALSE

\* "if not cities", "if not raw_announcements", "if not
\* transformed_announcements": the step returned nothing.
step_fails(res) == res = <<>>

\* _get_or_extract_cities, given the answers of the server to the request
\* for the cities page: the cities (<<>> stands for None), the extractor
\* and the file written by load_cities.
get_or_extract_cities(resps) ==
    IF cities_csv.exists
    THEN [cities |-> [j \in 1..Len(cities_csv.cells) |->
                        [id |-> read_csv_column(cities_csv.cells)[j]]],
          extractor |-> cities_extractor,
          nested |-> nested_cities_csv]
    ELSE LET out == fetch_page(resps, cities_extractor.backoff_delay)
             url == build_city_url(StrVal(<<>>), 0)
             transformed == [j \in 1..Len(site.codes) |->
                               [id |-> clean_string(StrVal(site.codes[j]))]]
             saved == get_file_path_dir_exists(data_dirs)
             ext == [error_urls |-> IF out.failed
                                    THEN cities_extractor.error_urls \cup {url}
                                    ELSE cities_extractor.error_urls,
                     request_count |-> cities_extractor.request_count + 1,
                     backoff_delay |-> out.delay]
         IN  IF out.result = "body" /\ saved
             THEN [cities |-> transformed, extractor |-> ext,
                   nested |-> [exists |-> TRUE,
                               cells |-> [j \in 1..Len(transformed) |->
                                            py_str(transformed[j].id).v]]]
             ELSE [cities |-> <<>>, extractor |-> ext,
                   nested |-> nested_cities_csv]

\* run_full_pipeline: "cities = self._get_or_extract_cities()" and the
\* test of its result.
FullGetCities ==
    /\ orch_pc = "full_start"
    /\ \E resps \in WorkerResponses :
         LET got == get_or_extract_cities(resps) IN
         /\ cities' = got.cities
         /\ cities_extractor' = got.extractor
         /\ nested_cities_csv' = got.nested
         /\ orch_pc' = IF step_fails(got.cities) THEN "ended"
                       ELSE "full_have_cities"
         /\ result' = IF step_fails(got.cities) THEN "False" ELSE result
    /\ steps' = Append(steps, "cities")
    /\ UNCHANGED <<fetchVars, site, poolVars, bulkVars, data_dirs, cities_csv,
                   announcements_csv, checkpoint_file, memVars,
                   remaining_cities, batch_i, run_no, caught, histVars,
                   transformed_announcements, csv_text, listings,
                   listing_snapshots, now, load_call, raw, cooked,
                   error_summary, rateVars>>

\* _get_or_extract_cities raises: "except Exception" returns False.
FullGetCitiesRaises ==
    /\ orch_pc = "full_start"
    /\ "acquire" \in site.faults
    /\ steps' = Append(steps, "cities")
    /\ orch_pc' = "ended"
    /\ result' = "False"
    /\ caught' = TRUE
    /\ UNCHANGED <<fetchVars, site, poolVars, bulkVars, diskVars,
                   cities_extractor, memVars, cities, remaining_cities,
                   batch_i, run_no, histVars, transformed_announcements,
                   csv_text, listings, listing_snapshots, now, load_call,
                   raw, cooked, error_summary,
                   rateVars>>

\* "raw_announcements = self.announcements_extractor.extract(cities)": the
\* city tasks are submitted to the thread pool.
FullExtract ==
    /\ orch_pc = "full_have_cities"
    /\ futures' = [j \in 1..Len(cities) |-> NewFuture(cities[j])]
    /\ pool_size' = max_workers
    /\ extract_pc' = "collecting"
    /\ all_announcements' = <<>>
    /\ orch_pc' = "full_extracting"
    /\ steps' = Append(steps, "extract")
    /\ UNCHANGED <<fetchVars, site, diskVars, cities_extractor, memVars,
                   cities, remaining_cities, batch_i, run_no, result, caught,
                   histVars, transformed_announcements, csv_text, listings,
                   listing_snapshots, now, load_call, raw, cooked,
                   error_summary, rateVars>>

\* extract returned: the test of raw_announcements, then
\* "self.announcements_transformer.transform(raw_announcements)".
FullTransform ==
    /\ orch_pc = "full_extracting"
    /\ extract_pc = "returned"
    /\ IF step_fails(all_announcements)
       THEN /\ orch_pc' = "ended"
            /\ result' = "False"
            /\ UNCHANGED <<steps, transformed_announcements>>
       ELSE /\ transformed_announcements' = transform(all_announcements)
            /\ steps' = Append(steps, "transform")
            /\ orch_pc' = "full_transformed"
            /\ result' = result
    /\ UNCHANGED <<fetchVars, site, poolVars, bulkVars, diskVars,
                   cities_extractor, memVars, cities, remaining_cities,
                   batch_i, run_no, caught, histVars, csv_text, listings,
                   listing_snapshots, now, load_call, raw, cooked,
                   error_summary, rateVars>>

\* CSVLoader.load (mode 'w') on the announcements file.
csv_load(file, anns) ==
    [exists |-> TRUE, headers |-> 1, header_first |-> TRUE,
     rows |-> [j \in 1..Len(site.codes) |->
                 Cardinality({r \in 1..Len(anns) : RowCity(anns[r]) = j})]]

\* The announcements as the relational loader sees them (the pages of the
\* model carry no price).
ToAnns(anns) == [r \in 1..Len(anns) |-> Ann(anns[r].listing, 0)]

\* The test of transformed_announcements, then
\* "self._load_announcements(transformed_announcements)" and the return.
FullLoad ==
    /\ orch_pc = "full_transformed"
    /\ orch_pc' = "ended"
    /\ IF step_fails(transformed_announcements)
       THEN /\ result' = "False"
            /\ UNCHANGED <<steps, announcements_csv, listings,
                           listing_snapshots, now, load_call>>
       ELSE /\ steps' = Append(steps, "load")
            /\ now' = now + 1
            /\ \E db_ok \in (IF "db" \in site.faults THEN BOOLEAN ELSE {TRUE}) :
                 LET pg == pg_load_announcements_streaming(listings,
                               listing_snapshots,
                               ToAnns(transformed_announcements), now + 1,
                               db_ok)
                     ok == IF loader_type = "csv"
                           THEN get_file_path_dir_exists(data_dirs)
                           ELSE pg.ret
                 IN  /\ announcements_csv' =
                          IF loader_type = "csv" /\ ok
                          THEN csv_load(announcements_csv,
                                        transformed_announcements)
                          ELSE announcements_csv
                     /\ listings' = IF loader_type = "postgres"
                                    THEN pg.listings ELSE listings
                     /\ listing_snapshots' =
                          IF loader_type = "postgres"
                          THEN pg.listing_snapshots ELSE listing_snapshots
                     /\ load_call' = [called |-> TRUE, n |-> load_call.n + 1,
                                      fn |-> loader_type, ret |-> ok]
                     /\ result' = IF ok THEN "True" ELSE "False"
    /\ UNCHANGED <<fetchVars, site, poolVars, bulkVars, data_dirs, cities_csv,
                   nested_cities_csv, checkpoint_file, cities_extractor,
                   memVars, cities, remaining_cities, batch_i, run_no, caught,
                   histVars, transformed_announcements, csv_text, raw, cooked,
                   error_summary, rateVars>>

NextFull ==
    \/ FullGetCities
    \/ FullGetCitiesRaises
    \/ FullExtract
    \/ \E i \in 1..Len(futures) : TaskStart(i)
    \/ \E i \in 1..Len(futures) : ExtractCityStep(i)
    \/ \E i \in 1..Len(futures) : TaskRaises(i)
    \/ \E i \in 1..Len(futures) : ExtractCollect(i)
    \/ ExtractReturn
    \/ FullTransform
    \/ FullLoad

SpecFull == InitFull /\ [][NextFull]_vars

(***************************************************************************)
(* The announcements transformer.  Field values are Python values: None,   *)
(* an int, a float (in thousandths) or a str.  Further characters of a     *)
(* text: 11 is ".", 12 is the superscript two (str.isdigit is true for it, *)
(* but it is no decimal digit: int and float reject it and \d does not     *)
(* match it), 13 14 15 spell "N/A", 16 is a blank.  A function returns a   *)
(* value or Raise (ValueError, AttributeError).                            *)
(***************************************************************************)
None == [k |-> "none"]

Num(n) == [k |-> "int", n |-> n]

Flt(m) == [k |-> "float", m |-> m]

Raise == [k |-> "raise"]

Dot == 11

Sup2 == 12

AsciiDigits == 0..9

\* "not value".
Falsy(x) ==
    \/ x.k = "none"
    \/ x.k = "int" /\ x.n = 0
    \/ x.k = "float" /\ x.m = 0
    \/ x.k = "str" /\ x.v = <<>>

\* int(t) for a text of decimal digits.
RECURSIVE ToNum(_)
ToNum(t) ==
    IF t = <<>> THEN 0 ELSE 10 * ToNum(SubSeq(t, 1, Len(t) - 1)) + t[Len(t)]

\* The thousandths written by the digits after a decimal point.
Frac(t) ==
    (IF Len(t) >= 1 THEN 100 * t[1] ELSE 0)
    + (IF Len(t) >= 2 THEN 10 * t[2] ELSE 0)
    + (IF Len(t) >= 3 THEN t[3] ELSE 0)

Chars(t) == {t[i] : i \in 1..Len(t)}

\* float(t) for a text of digits, dots and superscripts.
py_float(t) ==
    LET dots == {i \in 1..Len(t) : t[i] = Dot} IN
    IF Sup2 \in Chars(t) \/ Cardinality(dots) > 1
         \/ Chars(t) \cap AsciiDigits = {}
    THEN Raise
    ELSE LET d == IF dots = {} THEN Len(t) + 1 ELSE CHOOSE i \in dots : TRUE
         IN  Flt(1000 * ToNum(SubSeq(t, 1, d - 1))
                 + Frac(SubSeq(t, d + 1, Len(t))))

\* BaseTransformer.clean_numeric.
clean_numeric(x) ==
    IF Falsy(x) \/ x = StrVal(NA) THEN Num(0)
    ELSE IF x.k = "int" THEN x
    ELSE IF x.k = "str"
    THEN LET numeric_str ==
                 SelectSeq(x.v, LAMBDA c : c \in AsciiDigits \cup {Sup2})
         IN  IF numeric_str = <<>> THEN Num(0)
             ELSE IF Sup2 \in Chars(numeric_str) THEN Raise
             ELSE Num(ToNum(numeric_str))
    ELSE Num(0)

\* BaseTransformer.clean_float.
clean_float(x) ==
    IF Falsy(x) \/ x = StrVal(NA) THEN Flt(0)
    ELSE IF x.k = "int" THEN Flt(1000 * x.n)
    ELSE IF x.k = "float" THEN x
    ELSE IF x.k = "str"
    THEN LET numeric_str ==
                 SelectSeq(x.v,
                           LAMBDA c : c \in AsciiDigits \cup {Sup2, Dot})
         IN  IF numeric_str = <<>> THEN Flt(0) ELSE py_float(numeric_str)
    ELSE Flt(0)

\* Length of the longest run of decimal digits of t that starts at i.
RECURSIVE DigitRun(_, _)
DigitRun(t, i) ==
    IF i <= Len(t) /\ t[i] \in AsciiDigits THEN 1 + DigitRun(t, i + 1) ELSE 0

\* re.search(r'(\d+(?:\.\d+)?)', t).group(1) for a text with a digit.
first_number(t) ==
    LET i == CHOOSE j \in 1..Len(t) :
                 /\ t[j] \in AsciiDigits
                 /\ \A h \in 1..(j - 1) : t[h] \notin AsciiDigits
        n == DigitRun(t, i)
        f == IF i + n <= Len(t) /\ t[i + n] = Dot
             THEN DigitRun(t, i + n + 1) ELSE 0
    IN  IF f = 0 THEN SubSeq(t, i, i + n - 1)
        ELSE SubSeq(t, i, i + n + f)

\* AnnouncementsTransformer._clean_area.
clean_area(x) ==
    IF Falsy(x) \/ x = StrVal(NA) THEN Flt(0)
    ELSE IF x.k = "str" /\ Chars(x.v) \cap AsciiDigits # {}
    THEN py_float(first_number(x.v))
    ELSE clean_float(x)

\* A description is None or a text, of which the model keeps the keywords
\* that occur in its lower-case form.
Keywords == {"apartamento", "casa", "bodega", "local", "oficina"}

Text(has) == [k |-> "str", has |-> has]

\* AnnouncementsTransformer._infer_property_type.
infer_property_type(a) ==
    LET rooms == clean_numeric(a.rooms)
        area  == clean_area(a.area)
    IN  IF a.description.k = "none" \/ rooms = Raise \/ area = Raise
        THEN \* None has no lower(); int() or float() raised
             "raise"
        ELSE IF "apartamento" \in a.description.has
        THEN IF rooms.n = 1 \/ area.m < 50000 THEN "studio_apartment"
             ELSE "apartment"
        ELSE IF "casa" \in a.description.has THEN "house"
        ELSE IF "bodega" \in a.description.has
                  \/ "local" \in a.description.has THEN "warehouse"
        ELSE IF "oficina" \in a.description.has THEN "office"
        ELSE IF rooms.n <= 1 THEN "studio_apartment"
        ELSE IF rooms.n <= 3 THEN "apartment"
        ELSE "house"

\* AnnouncementsTransformer._transform_single_announcement: the record, or
\* kept = FALSE when an exception made it return None (transform then
\* leaves the record out).
transform_single_announcement(a) ==
    LET out == [price |-> clean_numeric(a.price),
                rooms |-> clean_numeric(a.rooms),
                bathrooms |-> clean_numeric(a.bathrooms),
                parkings |-> clean_numeric(a.parkings),
                area |-> clean_area(a.area)]
        ptype == infer_property_type(a)
    IN  IF Raise \in {out.price, out.rooms, out.bathrooms, out.parkings,
                      out.area}
             \/ ptype = "raise"
        THEN [fn |-> "transform", kept |-> FALSE]
        ELSE [fn |-> "transform", kept |-> TRUE, record |-> out,
              property_type |-> ptype]

\* re.sub(r'\s+', ' ', t): every run of blanks becomes one blank.
RECURSIVE collapse_ws(_)
collapse_ws(t) ==
    IF Len(t) < 2 THEN t
    ELSE IF t[1] = Space /\ t[2] = Space THEN collapse_ws(Tail(t))
    ELSE <<t[1]>> \o collapse_ws(Tail(t))

\* str.title(): a letter that starts a word is written in upper case, every
\* other letter in lower case.
py_title(t) ==
    [i \in 1..Len(t) |->
        IF t[i] \notin {Lower, Cap} THEN t[i]
        ELSE IF i = 1 \/ t[i - 1] \notin {Lower, Cap} THEN Cap
        ELSE Lower]

\* AnnouncementsTransformer._clean_city_name and _clean_neighborhood (the
\* same code).
clean_city_name(x) ==
    IF x.v = <<>> THEN StrVal(<<>>)
    ELSE StrVal(py_title(collapse_ws(py_strip(x.v))))

\* The dict that _transform_single_announcement returns for a scraped
\* announcement, as the function from its keys to their values; kept = FALSE
\* when it returned None.  The description is kept by its words, which the
\* whitespace clean-up leaves as they are.
transformed_announcement(a) ==
    LET t == transform_single_announcement(a)
    IN  IF ~t.kept THEN [kept |-> FALSE]
        ELSE [kept |-> TRUE,
              dict |-> [id |-> clean_string(a.id),
                        url |-> clean_string(a.url),
                        city_name |-> clean_city_name(a.city),
                        city_id |-> clean_string(a.city_id),
                        neighborhood |-> clean_city_name(a.neighborhood),
                        price |-> t.record.price,
                        rooms |-> t.record.rooms,
                        bathrooms |-> t.record.bathrooms,
                        parkings |-> t.record.parkings,
                        area |-> t.record.area,
                        description |-> a.description,
                        image_url |-> clean_string(a.img_url),
                        property_type |-> t.property_type,
                        is_active |-> TRUE,
                        created_at |-> "now"]]

\* dict.get(key, default).
dict_get(d, key, default) == IF key \in DOMAIN d THEN d[key] ELSE default

\* PostgresLoader._transform_announcement_to_listing: the keys of the
\* listing that come from the identity, the place, the image and the tags
\* of the announcement (title, property_type, the numbers, features and the
\* timestamps are left out).
transform_announcement_to_listing(announcement) ==
    LET city == dict_get(announcement, "city", StrVal(<<>>))
        neighborhood == dict_get(announcement, "neighborhood", StrVal(<<>>))
    IN  [provider_listing_id |->
             py_str(dict_get(announcement, "id", StrVal(<<>>))),
         city |-> city,
         neighborhood |-> neighborhood,
         location |-> StrVal(city.v \o <<Comma, Space>> \o neighborhood.v),
         link |-> dict_get(announcement, "url", StrVal(<<>>)),
         image_url |-> dict_get(announcement, "img_url", StrVal(<<>>)),
         metadata |->
             [is_featured |-> dict_get(announcement, "is_featured", FALSE),
              is_recently_updated |->
                  dict_get(announcement, "is_recently_updated", FALSE),
              city_id |-> dict_get(announcement, "city_id", None)]]


(***************************************************************************)
(* The cities extractor.  A page is the sequence of its anchors that have  *)
(* an href, in document order; of an anchor the model keeps whether the    *)
(* href starts with RENTAL_BASE_URL, the key=value pairs of its query      *)
(* string and its stripped text.                                           *)
(***************************************************************************)
Pair(key, val) == [key |-> key, val |-> val]

Anchor(prefix, query, text) ==
    [prefix |-> prefix, query |-> query, text |-> text]

\* parse_qs(query).get(key, [''])[0]: parse_qs leaves out the pairs with a
\* blank value, and the first remaining value of the key is taken.
qs_first(query, key) ==
    LET vals == SelectSeq(query, LAMBDA p : p.key = key /\ p.val # <<>>)
    IN  IF vals = <<>> THEN <<>> ELSE vals[1].val

\* CitiesExtractor._extract_city_info.
extract_city_info(a) ==
    [name |-> IF qs_first(a.query, "nCiudad") # <<>>
              THEN qs_first(a.query, "nCiudad") ELSE a.text,
     code |-> qs_first(a.query, "pCiudad"),
     url |-> a.query,
     extracted_name |-> a.text]

\* CitiesExtractor._parse_cities_page.
parse_cities_page(page) ==
    LET city_links == SelectSeq(page, LAMBDA a : a.prefix)
    IN  [i \in 1..Len(city_links) |-> extract_city_info(city_links[i])]

\* CitiesExtractor.extract, given what fetch_page returned.
cities_extract(fetched, page) ==
    IF ~fetched \/ page = <<>> THEN <<>> ELSE parse_cities_page(page)

(***************************************************************************)
(* SpecTransform: the transformer and the cities parser applied to every   *)
(* input of bounded sets.                                                  *)
(***************************************************************************)
PriceValues ==
    {None, Num(0), Num(5), Num(-1), StrVal(NA), StrVal(<<5, Dot, 0>>)}

RoomsValues ==
    {None, Num(1), Num(4), StrVal(NA), StrVal(<<>>), StrVal(<<1>>),
     StrVal(<<2>>), StrVal(<<3>>), StrVal(<<4>>), StrVal(<<10>>),
     StrVal(<<Sup2>>)}

AreaValues ==
    {None, Num(60), Flt(49500), StrVal(NA), StrVal(<<4, 9>>),
     StrVal(<<5, 0>>), StrVal(<<4, 9, Dot, 5>>),
     StrVal(<<9, 0, 16, 10, Sup2>>), StrVal(<<10, Sup2>>), StrVal(<<Dot>>),
     StrVal(<<10, Dot, 10, Dot>>)}

DescriptionValues ==
    {None, Text({}), Text({"apartamento", "casa"}), Text({"casa", "oficina"})}
    \cup {Text({w}) : w \in Keywords}

RawAnnouncements ==
    [price : PriceValues, rooms : RoomsValues,
     bathrooms : {StrVal(<<2>>), StrVal(NA)},
     parkings : {None, StrVal(<<1>>)},
     area : AreaValues, description : DescriptionValues]

Anchors ==
    {Anchor(TRUE, <<Pair("pCiudad", <<1>>), Pair("nCiudad", <<10>>)>>,
            <<10, 10>>),
     Anchor(TRUE, <<Pair("pCiudad", <<2>>)>>, <<10>>),
     Anchor(FALSE, <<Pair("pCiudad", <<3>>)>>, <<10>>),
     Anchor(TRUE, <<Pair("nCiudad", <<10>>)>>, <<10>>),
     Anchor(TRUE, <<Pair("pCiudad", <<>>), Pair("nCiudad", <<10>>)>>,
            <<10>>),
     Anchor(TRUE, <<Pair("pCiudad", <<4>>), Pair("nCiudad", <<>>)>>, <<>>),
     Anchor(TRUE, <<Pair("pCiudad", <<>>), Pair("pCiudad", <<5>>)>>,
            <<10>>)}

\* Scraped announcements as _parse_single_announcement builds them: the
\* texts vary, the numbers are fixed.
ScrapedAnnouncements ==
    [id : {StrVal(<<7>>), StrVal(<<4, 2>>)},
     url : {StrVal(<<Lower, Dot, Lower>>)},
     neighborhood : {StrVal(<<>>), StrVal(<<Cap, Lower>>),
                     StrVal(<<Space, Lower, Space, Space, Cap, Cap>>)},
     img_url : {StrVal(NA), StrVal(<<Lower, Dot, Lower>>)},
     price : {Num(5)}, rooms : {StrVal(<<2>>)}, bathrooms : {StrVal(<<2>>)},
     parkings : {StrVal(<<1>>)}, area : {StrVal(<<5, 0>>)},
     description : {Text({"casa"})},
     city : {StrVal(<<Cap, Lower>>), StrVal(<<Lower, Lower, Space, Lower>>)},
     city_id : {StrVal(<<1>>), IntVal(<<1>>)},
     is_featured : BOOLEAN,
     is_recently_updated : {FALSE}]

CitiesPages ==
    UNION {[1..n -> Anchors] : n \in 0..MaxAnchors}

InitTransform ==
    /\ error_urls = {}
    /\ request_count = 0
    /\ backoff_delay = base_delay
    /\ last_fetch = NoFetch
    /\ site = NoSite
    /\ futures = <<>>
    /\ pool_size = 0
    /\ extract_pc = "off"
    /\ all_announcements = <<>>
    /\ NoOrchestrator
    /\ steps = <<>>
    /\ transformed_announcements = <<>>
    /\ csv_text = NoCsvText
    /\ listings = <<>>
    /\ listing_snapshots = <<>>
    /\ now = 0
    /\ load_call = NoLoadCall
    /\ raw \in {[fn |-> "transform", ann |-> a] : a \in RawAnnouncements}
              \cup {[fn |-> "listing", ann |-> a] :
                        a \in ScrapedAnnouncements}
              \cup {[fn |-> "cities", page |-> p, fetched |-> f] :
                        p \in CitiesPages, f \in BOOLEAN}
    /\ cooked = NoCall
    /\ error_summary = NoSummary
    /\ last_request_time = 0
    /\ threads = <<>>

\* AnnouncementsTransformer.transform of a one-record list.
TransformAnnouncement ==
    /\ raw.fn = "transform"
    /\ cooked = NoCall
    /\ cooked' = transform_single_announcement(raw.ann)
    /\ UNCHANGED <<fetchVars, site, poolVars, bulkVars, streamVars, steps,
                   transformed_announcements, csv_text, listings,
                   listing_snapshots, now, load_call, raw, error_summary,
                   rateVars>>

\* CitiesExtractor.extract.
ExtractCities ==
    /\ raw.fn = "cities"
    /\ cooked = NoCall
    /\ cooked' = [fn |-> "cities",
                  cities |-> cities_extract(raw.fetched, raw.page)]
    /\ UNCHANGED <<fetchVars, site, poolVars, bulkVars, streamVars, steps,
                   transformed_announcements, csv_text, listings,
                   listing_snapshots, now, load_call, raw, error_summary,
                   rateVars>>

\* One announcement on its way through the streaming pipeline with the
\* relational loader: AnnouncementsTransformer.transform, then the listing
\* that PostgresLoader.load_announcements_streaming builds from the result.
ProjectListing ==
    /\ raw.fn = "listing"
    /\ cooked = NoCall
    /\ LET t == transformed_announcement(raw.ann)
       IN  cooked' =
               IF ~t.kept THEN [fn |-> "listing", kept |-> FALSE]
               ELSE [fn |-> "listing", kept |-> TRUE,
                     announcement |-> t.dict,
                     listing |-> transform_announcement_to_listing(t.dict)]
    /\ UNCHANGED <<fetchVars, site, poolVars, bulkVars, streamVars, steps,
                   transformed_announcements, csv_text, listings,
                   listing_snapshots, now, load_call, raw, error_summary,
                   rateVars>>

NextTransform == TransformAnnouncement \/ ExtractCities \/ ProjectListing

SpecTransform == InitTransform /\ [][NextTransform]_vars

(***************************************************************************)
(* SpecRate: the threads of one extractor call fetch_page, with the clock. *)
(* Time is counted in ticks of half a second and passes only while every   *)
(* thread sleeps or is between two calls; a sleep ends when its time is    *)
(* over, and a request is answered within the tick in which it is issued.  *)
(*   Each access to the shared fields           *)
(* request_count and last_request_time is a step of its own, so the steps  *)
(* of the threads interleave as the interpreter may switch threads.        *)
(* A thread is                                                             *)
(*   pc            where it is: "idle" between two calls, "rl_count",      *)
(*                 "rl_last", "rl_sleep", "rl_stamp", "rl_inc_read",       *)
(*                 "rl_inc_write" in _apply_rate_limiting, "request" at    *)
(*                 the top of the retry loop, "sleep_429", "sleep_retry"   *)
(*   calls         fetch_page calls it has made                            *)
(*   current_time  the local current_time                                  *)
(*   wake          end of the sleep it is in                               *)
(*   count         the value of request_count it read for "+= 1"           *)
(*   attempt       the loop index                                          *)
(*   last_req, gap time of its last request, and the time between its last *)
(*                 two requests, counted up to min_interval (history; -1:  *)
(*                 none)                                                   *)
(* A local variable is 0 outside the statements that use it.               *)
(***************************************************************************)
TicksPerSecond == 2

requests_per_minute == 30

\* "min_interval = 60.0 / RATE_LIMIT_CONFIG['requests_per_minute']", in ticks.
min_interval == (60 * TicksPerSecond) \div requests_per_minute

\* The ends of RATE_LIMIT_CONFIG['jitter_range'] = (0.5, 2.0), in ticks.
jitter_range == {TicksPerSecond \div 2, 2 * TicksPerSecond}

RateResponses == {"ok", "429", "503", "error"}

NewThread ==
    [pc |-> "idle", calls |-> 0, current_time |-> 0, wake |-> 0, count |-> 0,
     attempt |-> 0, last_req |-> -1, gap |-> -1]

ThreadUrl(t) == build_city_url(StrVal(<<t>>), 0)

InitRate ==
    /\ error_urls = {}
    /\ request_count = 0
    /\ backoff_delay = base_delay
    /\ last_fetch = NoFetch
    /\ site = NoSite
    /\ futures = <<>>
    /\ pool_size = 0
    /\ extract_pc = "off"
    /\ all_announcements = <<>>
    /\ NoOrchestrator
    /\ steps = <<>>
    /\ transformed_announcements = <<>>
    /\ csv_text = NoCsvText
    /\ listings = <<>>
    /\ listing_snapshots = <<>>
    /\ now = 0
    /\ load_call = NoLoadCall
    /\ raw = NoCall
    /\ cooked = NoCall
    /\ error_summary = NoSummary
    /\ last_request_time = 0
    /\ threads = [t \in 1..RateThreads |-> NewThread]

rateRest ==
    <<last_fetch, site, futures, pool_size, extract_pc, all_announcements,
      streamVars, steps, transformed_announcements, csv_text, listings,
      listing_snapshots, load_call, raw, cooked, error_summary>>

\* fetch_page is called; _apply_rate_limiting: "current_time = time.time()".
RateStart(t) ==
    /\ threads[t].pc = "idle"
    /\ threads[t].calls < MaxRateCalls
    /\ threads' = [threads EXCEPT ![t].pc = "rl_count",
                                  ![t].calls = @ + 1,
                                  ![t].current_time = now]
    /\ UNCHANGED <<fetchVars, now, last_request_time, rateRest>>

\* "if self.request_count > 0:".
RateCheckCount(t) ==
    /\ threads[t].pc = "rl_count"
    /\ threads' = IF request_count > 0
                  THEN [threads EXCEPT ![t].pc = "rl_last"]
                  ELSE [threads EXCEPT ![t].pc = "rl_stamp",
                                       ![t].current_time = 0]
    /\ UNCHANGED <<fetchVars, now, last_request_time, rateRest>>

\* "time_since_last = current_time - self.last_request_time" and
\* "if time_since_last < min_interval: time.sleep(sleep_time + jitter)".
RateCheckLast(t) ==
    /\ threads[t].pc = "rl_last"
    /\ LET time_since_last == threads[t].current_time - last_request_time IN
       IF time_since_last < min_interval
       THEN \E jitter \in jitter_range :
                threads' = [threads EXCEPT
                               ![t].pc = "rl_sleep",
                               ![t].current_time = 0,
                               ![t].wake = now + (min_interval
                                                  - time_since_last) + jitter]
       ELSE threads' = [threads EXCEPT ![t].pc = "rl_stamp",
                                       ![t].current_time = 0]
    /\ UNCHANGED <<fetchVars, now, last_request_time, rateRest>>

\* The sleep of _apply_rate_limiting is over.
RateWake(t) ==
    /\ threads[t].pc = "rl_sleep"
    /\ now >= threads[t].wake
    /\ threads' = [threads EXCEPT ![t].pc = "rl_stamp", ![t].wake = 0]
    /\ UNCHANGED <<fetchVars, now, last_request_time, rateRest>>

\* "self.last_request_time = time.time()".
RateStamp(t) ==
    /\ threads[t].pc = "rl_stamp"
    /\ last_request_time' = now
    /\ threads' = [threads EXCEPT ![t].pc = "rl_inc_read"]
    /\ UNCHANGED <<fetchVars, now, rateRest>>

\* "self.request_count += 1": the read.
RateIncRead(t) ==
    /\ threads[t].pc = "rl_inc_read"
    /\ threads' = [threads EXCEPT ![t].pc = "rl_inc_write",
                                  ![t].count = request_count]
    /\ UNCHANGED <<fetchVars, now, last_request_time, rateRest>>

\* "self.request_count += 1": the write; the retry loop is entered.
RateIncWrite(t) ==
    /\ threads[t].pc = "rl_inc_write"
    /\ request_count' = threads[t].count + 1
    /\ threads' = [threads EXCEPT ![t].pc = "request", ![t].attempt = 0,
                                  ![t].count = 0]
    /\ UNCHANGED <<error_urls, backoff_delay, last_fetch, now,
                   last_request_time, rateRest>>

\* The thread's record after the request of this iteration was issued.
Requested(th) ==
    [th EXCEPT !.last_req = now,
               !.gap = IF th.last_req = -1 THEN -1
                       ELSE Min(now - th.last_req, min_interval)]

\* One iteration of "for attempt in range(self.retries)": requests.get and
\* what follows the answer, up to the sleep or the return.
RateRequest(t) ==
    /\ threads[t].pc = "request"
    /\ \E r \in RateResponses :
         LET th == Requested(threads[t]) IN
         CASE r = "ok" ->
                  /\ backoff_delay' = base_delay
                  /\ threads' = [threads EXCEPT ![t] = [th EXCEPT !.pc = "idle", !.attempt = 0]]
                  /\ UNCHANGED error_urls
           [] r = "429" ->
                  /\ threads' = [threads EXCEPT ![t] =
                        [th EXCEPT !.pc = "sleep_429",
                                   !.wake = now + backoff_delay * TicksPerSecond]]
                  /\ UNCHANGED <<backoff_delay, error_urls>>
           [] r = "503" ->
                  /\ threads' = [threads EXCEPT ![t] =
                        [th EXCEPT !.pc = "sleep_retry",
                                   !.wake = now + backoff_delay * TicksPerSecond]]
                  /\ UNCHANGED <<backoff_delay, error_urls>>
           [] r = "error" ->
                  IF th.attempt < REQUEST_RETRIES - 1
                  THEN \* "sleep_time = (2 ** attempt) + random.uniform(0, 1)"
                       /\ \E u \in {0, TicksPerSecond} :
                            threads' = [threads EXCEPT ![t] =
                               [th EXCEPT !.pc = "sleep_retry",
                                          !.wake = now + (2 ^ th.attempt)
                                                         * TicksPerSecond + u]]
                       /\ UNCHANGED <<backoff_delay, error_urls>>
                  ELSE \* the last attempt: "self.error_urls.add(url)"
                       /\ error_urls' = error_urls \cup {ThreadUrl(t)}
                       /\ threads' = [threads EXCEPT ![t] =
                                         [th EXCEPT !.pc = "idle", !.attempt = 0]]
                       /\ UNCHANGED backoff_delay
    /\ UNCHANGED <<request_count, last_fetch, now, last_request_time,
                   rateRest>>

\* A sleep after a 429, a 503 or an exception is over: the delay is doubled
\* after a 429, and "continue" starts the next iteration or leaves the loop.
RetryWake(t) ==
    /\ threads[t].pc \in {"sleep_429", "sleep_retry"}
    /\ now >= threads[t].wake
    /\ backoff_delay' = IF threads[t].pc = "sleep_429"
                        THEN next_backoff(backoff_delay) ELSE backoff_delay
    /\ IF threads[t].attempt + 1 < REQUEST_RETRIES
       THEN /\ threads' = [threads EXCEPT ![t].pc = "request",
                                          ![t].wake = 0,
                                          ![t].attempt = @ + 1]
            /\ UNCHANGED error_urls
       ELSE /\ threads' = [threads EXCEPT ![t].pc = "idle", ![t].wake = 0,
                                          ![t].attempt = 0]
            /\ error_urls' = error_urls \cup {ThreadUrl(t)}
    /\ UNCHANGED <<request_count, last_fetch, now, last_request_time,
                   rateRest>>

\* Half a second passes.
Tick ==
    /\ now < MaxTime
    /\ \A t \in 1..Len(threads) :
           \/ threads[t].pc = "idle"
           \/ /\ threads[t].pc \in {"rl_sleep", "sleep_429", "sleep_retry"}
              /\ now < threads[t].wake
    /\ now' = now + 1
    /\ UNCHANGED <<fetchVars, last_request_time, threads, rateRest>>

NextRate ==
    \/ \E t \in 1..Len(threads) : RateStart(t)
    \/ \E t \in 1..Len(threads) : RateCheckCount(t)
    \/ \E t \in 1..Len(threads) : RateCheckLast(t)
    \/ \E t \in 1..Len(threads) : RateWake(t)
    \/ \E t \in 1..Len(threads) : RateStamp(t)
    \/ \E t \in 1..Len(threads) : RateIncRead(t)
    \/ \E t \in 1..Len(threads) : RateIncWrite(t)
    \/ \E t \in 1..Len(threads) : RateRequest(t)
    \/ \E t \in 1..Len(threads) : RetryWake(t)
    \/ Tick

SpecRate == InitRate /\ [][NextRate]_vars

(***************************************************************************)
(* SpecLegacy: the legacy AnnouncementsScraper.extract_data over the       *)
(* cities of a site, each city scraped by scrape_city on a pool thread.    *)
(* The legacy constants are read from the environment, so they are strs.   *)
(***************************************************************************)
legacy_max_workers == 5

legacy_retries == 3

\* constants.configuration.MAX_LISTINGS_PER_PAGE: os.environ[...], a str.
LEGACY_MAX_LISTINGS_PER_PAGE == StrVal(<<5, 0>>)

\* The answers to the requests of one legacy fetch_page call.
LegacyResponses ==
    IF "net" \in site.faults
    THEN {<<"ok">>, <<"error", "ok">>, <<"503", "429", "error", "ok">>,
          <<"empty">>}
    ELSE {<<"ok">>}

\* WebScraper.fetch_page: every failure is a RequestException (429 and 503
\* through raise_for_status); after the loop the URL is recorded and "" is
\* returned, as for an empty body.
RECURSIVE legacy_fetch_loop(_, _)
legacy_fetch_loop(resps, attempt) ==
    IF attempt >= legacy_retries
    THEN [result |-> "empty", requests |-> attempt, failed |-> TRUE]
    ELSE IF resps[attempt + 1] \in Failures
    THEN \* time.sleep(1)
         legacy_fetch_loop(resps, attempt + 1)
    ELSE [result |-> IF resps[attempt + 1] = "ok" THEN "body" ELSE "empty",
          requests |-> attempt + 1, failed |-> FALSE]

legacy_fetch_page(resps) == legacy_fetch_loop(resps, 0)

\* "offset += MAX_LISTINGS_PER_PAGE": int + int, or TypeError for int + str.
py_add(offset, x) ==
    IF x.k = "int" THEN [raised |-> FALSE, v |-> offset + ToNum(x.v)]
    ELSE [raised |-> TRUE, v |-> offset]

\* The city dicts of the legacy scraper.
LegacyCities(st) ==
    [j \in 1..Len(st.codes) |->
        [code |-> StrVal(st.codes[j])]]

\* parse_city_page: one record per listing row of the page.
parse_city_page(url, city) ==
    [r \in 1..SitePage(url).n |->
        [listing |-> <<url.pCiudad, url.offset, r>>, city_id |-> city.code]]

\* The body of "while True" in scrape_city, given what fetch_page(url)
\* returned: the future after this iteration.  parse_city_page and
\* is_last_page run on "" as on any page; leaving the loop is followed by
\* save_data_to_csv and the return.
scrape_city_body(f, out) ==
    LET url      == build_city_url(f.city.code, f.offset)
        page_listings == IF out.result = "body"
                         THEN parse_city_page(url, f.city) ELSE <<>>
        last     == out.result = "body" /\ is_last_page(SitePage(url))
        next     == py_add(f.offset, LEGACY_MAX_LISTINGS_PER_PAGE)
        g        == [f EXCEPT !.requested = Append(@, f.offset),
                              !.failed_at = IF out.failed /\ @ = -1
                                            THEN f.offset ELSE @,
                              !.city_announcements = @ \o page_listings]
    IN  IF last THEN [g EXCEPT !.state = "returned"]
        ELSE IF next.raised THEN [g EXCEPT !.state = "raised", !.exc = TRUE]
        ELSE [g EXCEPT !.offset = next.v]

InitLegacy ==
    /\ error_urls = {}
    /\ request_count = 0
    /\ backoff_delay = base_delay
    /\ last_fetch = NoFetch
    /\ site \in CitySites
    /\ futures = <<>>
    /\ pool_size = 0
    /\ extract_pc = "idle"
    /\ all_announcements = <<>>
    /\ NoOrchestrator
    /\ NoAux

\* extract_data: "futures = [executor.submit(self.scrape_city, city) ...]".
LegacySubmit ==
    /\ extract_pc = "idle"
    /\ futures' = [j \in 1..Len(site.codes) |->
                      NewFuture(LegacyCities(site)[j])]
    /\ pool_size' = legacy_max_workers
    /\ extract_pc' = "collecting"
    /\ UNCHANGED <<fetchVars, site, all_announcements, streamVars, auxVars>>

\* One iteration of "while True" in scrape_city.
ScrapeCityStep(i) ==
    /\ futures[i].state = "running"
    /\ Len(futures[i].requested) < MaxPageRequests
    /\ \E resps \in LegacyResponses :
         LET url == build_city_url(futures[i].city.code, futures[i].offset)
             out == legacy_fetch_page(resps)
         IN
         /\ error_urls' = IF out.failed THEN error_urls \cup {url}
                          ELSE error_urls
         /\ futures' = [futures EXCEPT ![i] = scrape_city_body(futures[i], out)]
    /\ UNCHANGED <<request_count, backoff_delay, last_fetch, site, pool_size,
                   extract_pc, all_announcements, streamVars, auxVars>>

\* extract_data: the loop over as_completed, and the end of the call
\* (save_data_to_csv of everything collected, return).
NextLegacy ==
    \/ LegacySubmit
    \/ \E i \in 1..Len(futures) : TaskStart(i)
    \/ \E i \in 1..Len(futures) : ScrapeCityStep(i)
    \/ \E i \in 1..Len(futures) : ExtractCollect(i)
    \/ ExtractReturn

SpecLegacy == InitLegacy /\ [][NextLegacy]_vars

(***************************************************************************)
(* Claims.                                                                 *)
(***************************************************************************)

\* Number of leading 429/503 answers of a response sequence.
RECURSIVE ThrottledPrefix(_)
ThrottledPrefix(resps) ==
    IF resps = <<>> \/ Head(resps) \notin {"429", "503"} THEN 0
    ELSE 1 + ThrottledPrefix(Tail(resps))

\* The server answers k times 429/503 and then with a page.
ThrottledThenOk(resps) ==
    /\ ThrottledPrefix(resps) < Len(resps)
    /\ resps[ThrottledPrefix(resps) + 1] = "ok"

\* C5 (as stated): a 429 or 503 answer does not consume a retry attempt: a
\* call answered by k such answers and then a page returns the page body,
\* and the loop index (attempts used) is still 0 when the page arrives.
C5_NoAttemptConsumed ==
    (last_fetch.called /\ ThrottledThenOk(last_fetch.resps))
        => (last_fetch.result = "body" /\ last_fetch.attempt = 0)

\* C6: fetch_page returns None only after REQUEST_RETRIES requests that all
\* failed, and exactly then records the URL; a call that returns a body
\* leaves error_urls as it was; error_urls never loses an element.
C6_Inv ==
    /\ last_fetch.result = "absent" =>
          /\ last_fetch.requests = REQUEST_RETRIES
          /\ \A i \in 1..REQUEST_RETRIES : last_fetch.resps[i] \in Failures
          /\ error_urls = last_fetch.before \cup {last_fetch.url}
    /\ last_fetch.result \in {"body", "empty"} =>
          error_urls = last_fetch.before

C6_AbsentOnlyAfterAllRetries ==
    []C6_Inv /\ [][error_urls \subseteq error_urls']_vars

\* A call gave up on a URL that was not yet recorded, while another URL
\* recorded earlier is still in the set.
C6_Witness ==
    /\ last_fetch.result = "absent"
    /\ last_fetch.url \notin last_fetch.before
    /\ last_fetch.before # {}
    /\ error_urls = last_fetch.before \cup {last_fetch.url}

\* The pagination indicator of a page reports current page >= total pages.
IndicatorSaysLast(page) ==
    page.ind # <<>> /\ page.ind[1] >= page.ind[2]

FutureUrl(i, k) == build_city_url(futures[i].city.id, futures[i].requested[k])

\* C7: a fetched page whose indicator reports current >= total is the last
\* page requested for its city: the task has returned and no larger offset
\* was requested.
C7_StopsAtLastPage ==
    \A i \in 1..Len(futures) : \A k \in 1..Len(futures[i].requested) :
        (/\ futures[i].requested[k] # futures[i].failed_at
         /\ IndicatorSaysLast(SitePage(FutureUrl(i, k))))
        => (/\ k = Len(futures[i].requested)
            /\ futures[i].state \in {"returned", "consumed"})

\* A city task fetched three pages and stopped at the one reading "3 / 3".
C7_Witness ==
    \E i \in 1..Len(futures) :
        /\ futures[i].state \in {"returned", "consumed"}
        /\ futures[i].failed_at = -1
        /\ Len(futures[i].requested) = 3
        /\ SitePage(FutureUrl(i, 3)).ind = <<3, 3>>

\* The announcements of the first m pages requested by task i.
RECURSIVE PagesBefore(_, _)
PagesBefore(i, m) ==
    IF m = 0 THEN <<>>
    ELSE PagesBefore(i, m - 1)
           \o parse_announcements_page(FutureUrl(i, m), futures[i].city)

\* C8: a city's offsets are 0, 50, 100, ... in this order; a task whose
\* fetch failed returns exactly the announcements of the pages fetched
\* before the failing offset; if the first fetch of every city fails, bulk
\* extract returns the empty list.
C8_PartialResultsKept ==
    /\ \A i \in 1..Len(futures) : \A k \in 1..Len(futures[i].requested) :
           futures[i].requested[k] = (k - 1) * MAX_LISTINGS_PER_PAGE
    /\ \A i \in 1..Len(futures) :
           (futures[i].state \in {"returned", "consumed"}
              /\ futures[i].failed_at # -1)
           => (/\ futures[i].failed_at
                    = futures[i].requested[Len(futures[i].requested)]
               /\ futures[i].city_announcements
                    = PagesBefore(i, Len(futures[i].requested) - 1))
    /\ (extract_pc = "returned"
          /\ \A i \in 1..Len(futures) : futures[i].failed_at = 0)
       => all_announcements = <<>>

\* A task failed at its third request and kept the rows of two pages.
C8_Witness ==
    \E i \in 1..Len(futures) :
        /\ futures[i].state \in {"returned", "consumed"}
        /\ futures[i].failed_at = 2 * MAX_LISTINGS_PER_PAGE
        /\ Len(futures[i].city_announcements) >= 2

(***************************************************************************)
(* Claims about the streaming pipeline.                                    *)
(***************************************************************************)

\* The run in progress (or just ended) requested a listing page for the
\* city of task i.
Fetched(i) == futures[i].requested # <<>>

\* C1 (as stated): a run that resumed from a checkpoint whose
\* processed_cities is P requests listing pages only for cities whose id is
\* not in P, whether the city list was read from the cities file or
\* extracted.
C1_OnlyUnprocessedFetched ==
    \A i \in 1..Len(futures) :
        Fetched(i) => py_str(futures[i].city.id) \notin resumed_from

\* C2 (as stated): when run_streaming_pipeline has returned True, the
\* checkpoint file does not exist.
C2_NoCheckpointAfterSuccess ==
    (orch_pc = "ended" /\ result = "True") => ~checkpoint_file.exists

\* Fewer than save_frequency city ids were merged since the last save.
C3_Inv == since_save < save_frequency

\* C3: from any starting state of a run, the callback that merges the 10th
\* new city id since the last checkpoint save (or since the start of the
\* run) writes the checkpoint, with the state after the merge; so the count
\* of ids merged and not yet saved never reaches 10.
C3_SaveAfterTenMerged ==
    /\ []C3_Inv
    /\ [][(/\ orch_pc = "collecting"
           /\ since_save + Cardinality(processed_cities' \ processed_cities)
                >= save_frequency)
          => checkpoint_file' = save_checkpoint(processed_cities',
                                                total_announcements',
                                                is_first_batch')]_vars

\* A periodic save happened right after the 10th id since the start of the
\* run was merged.
C3_Witness ==
    /\ last_save_merged = save_frequency
    /\ checkpoint_file.exists
    /\ checkpoint_file.processed_cities = processed_cities
    /\ since_save = 0

\* C4 (as stated): a run in which an exception was raised (caught by
\* run_streaming_pipeline, raised by a city task, or a user interrupt) ends
\* without success and with the checkpoint file equal to the in-memory
\* processed_cities / total_announcements / is_first_batch.
C4_CheckpointOnAnyException ==
    (/\ orch_pc = "ended"
     /\ \/ caught
        \/ result = "KeyboardInterrupt"
        \/ \E i \in 1..Len(futures) : futures[i].exc)
    => (/\ result # "True"
        /\ checkpoint_file = save_checkpoint(processed_cities,
                                             total_announcements,
                                             is_first_batch))

\* C9 (as stated): every city whose task is completed and collected had the
\* callback invoked exactly once, with the city's complete result list.
C9_CallbackOncePerCity ==
    \A i \in 1..Len(futures) :
        futures[i].state = "consumed"
        => (/\ futures[i].callbacks = 1
            /\ futures[i].passed = futures[i].city_announcements)

\* C9 (amended): the callback is invoked exactly once, with the complete
\* result list, for every collected city whose task returned a non-empty
\* list; it is not invoked for a city whose list is empty or whose task
\* raised, and never before the task is collected.
C9_CallbackOncePerNonEmptyCity ==
    \A i \in 1..Len(futures) :
        LET f == futures[i] IN
        /\ f.callbacks \in {0, 1}
        /\ f.state # "consumed" => f.callbacks = 0
        /\ (f.state = "consumed" /\ ~f.exc /\ f.city_announcements # <<>>)
             => (f.callbacks = 1 /\ f.passed = f.city_announcements)
        /\ (f.state = "consumed" /\ (f.exc \/ f.city_announcements = <<>>))
             => f.callbacks = 0

\* A batch was collected in which one city with two pages got its callback
\* with both listings and a city without listings got none.
C9_Witness ==
    /\ \E i \in 1..Len(futures) :
          /\ futures[i].state = "consumed"
          /\ futures[i].callbacks = 1
          /\ Len(futures[i].passed) = 2
    /\ \E i \in 1..Len(futures) :
          /\ futures[i].state = "consumed"
          /\ ~futures[i].exc
          /\ futures[i].city_announcements = <<>>
          /\ futures[i].callbacks = 0

BatchLines(batch) == [r \in 1..Len(batch) |-> RowLine(batch[r])]

CsvCall == load_call.called /\ load_call.fn = "csv"

\* C12: a successful streaming call to the CSV loader with is_first_batch
\* true appends a header line followed by the rows of the batch; one with
\* is_first_batch false on a file that exists appends only the rows of the
\* batch; a call with an empty batch returns True and leaves the file as it
\* was.
C12_HeaderOnlyOnFirstBatch ==
    CsvCall =>
        /\ (load_call.batch = <<>>)
             => (load_call.ret /\ csv_text = load_call.csv_before)
        /\ (load_call.batch # <<>> /\ load_call.ret /\ load_call.first)
             => csv_text.lines = load_call.csv_before.lines
                                   \o <<HeaderLine>>
                                   \o BatchLines(load_call.batch)
        /\ (load_call.batch # <<>> /\ load_call.ret /\ ~load_call.first
              /\ load_call.csv_before.exists)
             => csv_text.lines = load_call.csv_before.lines
                                   \o BatchLines(load_call.batch)

\* A file made by a first call (header, one row) got a second row from a
\* later call with is_first_batch false, and no second header.
C12_Witness ==
    /\ CsvCall
    /\ ~load_call.first
    /\ load_call.ret
    /\ csv_text.lines = <<HeaderLine, RowLine(Ann(1, 100)),
                          RowLine(Ann(1, 200))>>

PgCall == load_call.called /\ load_call.fn = "postgres"

\* The rows of a table that belong to a provider_listing_id.
RowsOf(tbl, id) == SelectSeq(tbl, LAMBDA r : r.provider_listing_id = id)

\* C13: after a successful streaming call to the relational loader, every
\* announcement of the batch has exactly one row in listings, with the
\* price of this call; if the listing was already there (loaded by an
\* earlier call, with whatever price), its first_seen is still the one
\* of the earlier call; listing_snapshots has the rows it had before, unchanged,
\* followed by one new row per announcement, so two calls leave two rows.
C13_UpsertKeepsFirstSeen ==
    (PgCall /\ load_call.ret) =>
        \A r \in 1..Len(load_call.batch) :
            LET a      == load_call.batch[r]
                before == RowsOf(load_call.listings_before, a.id)
                after  == RowsOf(listings, a.id)
            IN  /\ Len(after) = 1
                /\ after[1].price = a.price
                /\ before # <<>> => after[1].first_seen = before[1].first_seen
                /\ SubSeq(listing_snapshots, 1,
                          Len(load_call.snapshots_before))
                     = load_call.snapshots_before
                /\ Len(RowsOf(listing_snapshots, a.id))
                     = Len(RowsOf(load_call.snapshots_before, a.id)) + 1
                /\ RowsOf(listing_snapshots, a.id)
                       [Len(RowsOf(listing_snapshots, a.id))].price = a.price

\* Listing 1 was loaded with price 100 and later with price 200: one row,
\* price 200, first seen at the earlier call; two snapshots, 100 then 200.
C13_Witness ==
    /\ PgCall
    /\ load_call.ret
    /\ Len(RowsOf(listings, 1)) = 1
    /\ RowsOf(listings, 1)[1].price = 200
    /\ RowsOf(listings, 1)[1].first_seen < RowsOf(listings, 1)[1].last_seen
    /\ Len(RowsOf(listing_snapshots, 1)) = 2
    /\ RowsOf(listing_snapshots, 1)[1].price = 100
    /\ RowsOf(listing_snapshots, 1)[2].price = 200

(***************************************************************************)
(* Claims about the full pipeline.                                         *)
(***************************************************************************)

\* C11: run_full_pipeline invokes its steps in the order cities, extract,
\* transform, load; once a step has returned an empty result no later step
\* is invoked and the run returns False; it returns True only after all
\* four steps, the loader having reported success, and False when the
\* loader reported failure.
C11_StepsInOrderAbortOnEmpty ==
    /\ Len(steps) <= Len(FullSteps)
    /\ \A k \in 1..Len(steps) : steps[k] = FullSteps[k]
    /\ (Len(steps) >= 1 /\ cities = <<>>)
         => (Len(steps) = 1 /\ orch_pc = "ended" /\ result = "False")
    /\ (extract_pc = "returned" /\ all_announcements = <<>>)
         => (Len(steps) = 2 /\ (orch_pc = "ended" => result = "False"))
    /\ (Len(steps) >= 3 /\ transformed_announcements = <<>>)
         => (Len(steps) = 3 /\ (orch_pc = "ended" => result = "False"))
    /\ result = "True"
         => (steps = FullSteps /\ load_call.called /\ load_call.ret)
    /\ (orch_pc = "ended" /\ Len(steps) = 4 /\ ~load_call.ret)
         => result = "False"

\* A run whose extraction returned no announcement ended with False after
\* the steps cities and extract.
C11_Witness ==
    /\ orch_pc = "ended"
    /\ result = "False"
    /\ extract_pc = "returned"
    /\ all_announcements = <<>>
    /\ steps = <<"cities", "extract">>

(***************************************************************************)
(* More claims about the streaming pipeline.                               *)
(***************************************************************************)

\* C14 (as stated): once a run has saved the extracted city list through
\* the flat-file loader, a later _get_or_extract_cities takes the cities
\* from that file and does not request the cities page again.
C14_SavedCitiesFileIsReused ==
    [][(/\ orch_pc = "loaded"
        /\ nested_cities_csv.exists
        /\ orch_pc' = "have_cities")
       => cities_extractor'.request_count = cities_extractor.request_count]_vars

PropertyTypes ==
    {"studio_apartment", "apartment", "house", "warehouse", "office"}

\* C15: every raw announcement given to AnnouncementsTransformer.transform
\* is kept, its price, rooms, bathrooms and parkings are integers >= 0 and
\* its area is a number >= 0.
C15_KeptWithNonNegativeNumbers ==
    cooked.fn = "transform" =>
        /\ cooked.kept
        /\ \A f \in {"price", "rooms", "bathrooms", "parkings"} :
               cooked.record[f].k = "int" /\ cooked.record[f].n >= 0
        /\ cooked.record.area.k = "float"
        /\ cooked.record.area.m >= 0

\* C16: the inferred property type is always one of the five labels; a
\* description with "apartamento" gives studio_apartment when rooms = 1 or
\* area < 50 and apartment otherwise, one with "casa" gives house whatever
\* the rooms, "bodega" or "local" give warehouse, "oficina" gives office,
\* and without a keyword rooms <= 1 give studio_apartment, rooms <= 3
\* apartment and more rooms house.
C16_PropertyTypeByKeywordThenRooms ==
    cooked.fn = "transform" =>
        /\ cooked.kept
        /\ cooked.property_type \in PropertyTypes
        /\ LET has == raw.ann.description.has
               rooms == cooked.record.rooms.n
               area == cooked.record.area.m
               t == cooked.property_type
           IN  /\ "apartamento" \in has =>
                     t = IF rooms = 1 \/ area < 50000
                         THEN "studio_apartment" ELSE "apartment"
               /\ "casa" \in has => t = "house"
               /\ ("bodega" \in has \/ "local" \in has) => t = "warehouse"
               /\ "oficina" \in has => t = "office"
               /\ has \cap Keywords = {} =>
                     t = IF rooms <= 1 THEN "studio_apartment"
                         ELSE IF rooms <= 3 THEN "apartment" ELSE "house"

\* C17: the cities extractor returns one record for each anchor whose href
\* starts with the rental prefix, in document order, each with a non-empty
\* name and a non-empty code, the name being nCiudad when that is non-empty
\* and the anchor text otherwise; a failed fetch gives the empty list.
C17_OneNamedCodedRecordPerRentalAnchor ==
    cooked.fn = "cities" =>
        IF ~raw.fetched THEN cooked.cities = <<>>
        ELSE LET links == SelectSeq(raw.page, LAMBDA a : a.prefix)
             IN  /\ Len(cooked.cities) = Len(links)
                 /\ \A i \in 1..Len(links) :
                        LET c == cooked.cities[i]
                            n == qs_first(links[i].query, "nCiudad")
                        IN  /\ c.url = links[i].query
                            /\ c.name # <<>>
                            /\ c.code # <<>>
                            /\ c.name = IF n # <<>> THEN n
                                        ELSE links[i].text

\* C18: the `errors` command lists the URLs whose fetch was given up in the
\* last pipeline run, each under its extractor, and the counts it prints
\* are the numbers of those URLs.
C18_ErrorsReportLastRun ==
    error_summary.shown =>
        /\ error_summary.summary.failed_urls = error_summary.last_run
        /\ error_summary.summary.cities_extractor_errors
               = Cardinality(error_summary.last_run.cities)
        /\ error_summary.summary.announcements_extractor_errors
               = Cardinality(error_summary.last_run.announcements)

\* The delay the claim describes after the first n answers of a call that
\* started with delay d.
RECURSIVE DelayAfter(_, _, _)
DelayAfter(resps, n, d) ==
    IF n = 0 THEN d
    ELSE LET before == DelayAfter(resps, n - 1, d) IN
         IF resps[n] = "429" THEN Min(2 * before, 60)
         ELSE IF resps[n] \in Successes THEN 1
         ELSE before

\* C19: the backoff delay stays within [base_delay, max_backoff] = [1, 60];
\* a 429 answer replaces it by min(2 x delay, 60), a 503 answer leaves it
\* as it is, a successful answer resets it to 1, and a call that ends with
\* the retries exhausted does not reset it.
C19_BackoffWithinBounds ==
    /\ backoff_delay >= 1
    /\ backoff_delay <= 60
    /\ last_fetch.called =>
           backoff_delay = DelayAfter(last_fetch.resps, last_fetch.requests,
                                      last_fetch.delay_before)
    /\ (last_fetch.called /\ last_fetch.result = "absent"
          /\ \A i \in 1..last_fetch.requests : last_fetch.resps[i] # "429")
           => backoff_delay = last_fetch.delay_before

\* A call that met 429 answers only, with the delay at the ceiling
\* afterwards, having started from a delay above the base.
C19_Witness ==
    /\ last_fetch.called
    /\ last_fetch.result = "absent"
    /\ \A i \in 1..last_fetch.requests : last_fetch.resps[i] = "429"
    /\ last_fetch.delay_before > 1
    /\ backoff_delay = 60

\* The futures whose batch the loader failed to store.
StoreFailed(fs) == {i \in 1..Len(fs) : fs[i].stored = "failed"}

\* C20: when the loader reports failure for a city's batch, the callback
\* leaves total_announcements, is_first_batch and processed_cities as they
\* were and writes no checkpoint, and the collection of the other cities
\* goes on; a run in which a batch could not be stored returns True unless
\* an exception or an interrupt ended it.
C20_LoaderFailureChangesNothing ==
    /\ [][(\E i \in 1..Len(futures) :
               /\ futures[i].state # "consumed"
               /\ Len(futures') = Len(futures)
               /\ futures'[i].state = "consumed"
               /\ futures'[i].stored = "failed")
          => /\ processed_cities' = processed_cities
             /\ total_announcements' = total_announcements
             /\ is_first_batch' = is_first_batch
             /\ checkpoint_file' = checkpoint_file
             /\ announcements_csv' = announcements_csv
             /\ orch_pc' = "collecting"
             /\ \A j \in 1..Len(futures) :
                    j \notin StoreFailed(futures') =>
                        futures'[j] = futures[j]]_vars
    /\ [](orch_pc = "ended" /\ StoreFailed(futures) # {}
            => result \in {"True", "KeyboardInterrupt"} \/ caught)

\* A run that returned True although the loader failed for a batch, after
\* another city's batch had been stored.
C20_Witness ==
    /\ orch_pc = "ended"
    /\ result = "True"
    /\ StoreFailed(futures) # {}
    /\ \E i \in 1..Len(futures) : futures[i].stored = "ok"

\* C21: a city id that this run put into processed_cities belongs to a city
\* whose pages were all fetched, up to its last page, and whose
\* announcements the loader stored.
C21_ProcessedOnlyFullyStreamed ==
    \A i \in 1..Len(futures) :
        (/\ futures[i].state = "consumed"
         /\ clean_string(futures[i].city.id)
                \in processed_cities \ resumed_from)
        => /\ futures[i].failed_at = -1
           /\ futures[i].stored = "ok"

\* The number of groups of batch_size that n cities make.
Groups(n) == (n + batch_size - 1) \div batch_size

\* C22: the cities are processed in consecutive groups of batch_size: the
\* tasks in flight are those of the current group, the next group is
\* submitted only when every city of the current group has completed and
\* its callback has returned, and the run has slept once between each two
\* consecutive groups and not after the last one.
C22_GroupsOneAfterTheOther ==
    /\ [](orch_pc = "collecting"
            => /\ Len(futures) <= batch_size
               /\ \A i \in 1..Len(futures) :
                      futures[i].city = remaining_cities[batch_i + i])
    /\ [][(orch_pc = "collecting" /\ orch_pc' = "batch")
            => /\ \A i \in 1..Len(futures) : futures[i].state = "consumed"
               /\ batch_i' = batch_i + batch_size
               /\ batch_i' < Len(remaining_cities)
               /\ now' = now + CITY_SLEEP_TIME]_vars
    /\ []((orch_pc \in {"batch", "collecting"})
            => now = CITY_SLEEP_TIME * (batch_i \div batch_size))
    /\ []((orch_pc = "ended" /\ result = "True" /\ remaining_cities # <<>>)
            => now = CITY_SLEEP_TIME * (Groups(Len(remaining_cities)) - 1))

\* A run over more than one group that returned True, having slept.
C22_Witness ==
    /\ orch_pc = "ended"
    /\ result = "True"
    /\ Len(remaining_cities) > batch_size
    /\ now >= CITY_SLEEP_TIME

\* The streaming state the callback writes.
writtenByCallback ==
    <<processed_cities, total_announcements, is_first_batch,
      announcements_csv, checkpoint_file>>

\* The futures that the coordinating thread takes from as_completed in a
\* step, and the futures on which a worker thread acts in a step.
Consumes(i) ==
    /\ Len(futures') = Len(futures)
    /\ futures[i].state # "consumed"
    /\ futures'[i].state = "consumed"

WorkerActs(i) ==
    /\ Len(futures') = Len(futures)
    /\ futures'[i] # futures[i]
    /\ futures'[i].state # "consumed"

\* C23: the streaming state has one writer.  A step of a worker thread
\* leaves processed_cities, total_announcements, is_first_batch, the
\* announcements file and the checkpoint file alone; the callback runs in
\* the coordinating thread's step that takes a future whose task has ended,
\* one future and at most one callback per step, so no two callbacks
\* overlap and none overlaps with the task of its city.
C23_SingleWriter ==
    /\ [][(\E i \in 1..Len(futures) : WorkerActs(i))
            => UNCHANGED writtenByCallback]_vars
    /\ [][\A i \in 1..Len(futures) :
              Consumes(i) =>
                  /\ futures[i].state \in {"returned", "raised"}
                  /\ futures'[i].callbacks <= futures[i].callbacks + 1
                  /\ \A j \in 1..Len(futures) :
                         j # i => futures'[j] = futures[j]]_vars
    /\ [][(orch_pc = "collecting" /\ orch_pc' = "collecting"
             /\ writtenByCallback' # writtenByCallback)
            => \E i \in 1..Len(futures) :
                   /\ Consumes(i)
                   /\ futures'[i].callbacks = futures[i].callbacks + 1]_vars

\* A callback has stored a batch while the task of another city of the
\* group was running on a worker.
C23_Witness ==
    /\ orch_pc = "collecting"
    /\ \E i, j \in 1..Len(futures) :
           /\ futures[i].state = "consumed"
           /\ futures[i].stored = "ok"
           /\ futures[j].state = "running"
           /\ futures[j].requested # <<>>

\* C24: two consecutive requests of one thread are never initiated less
\* than 60 / requests_per_minute seconds apart, retries and re-requests
\* after a 429 or 503 included.
C24_RequestsOfAThreadSpaced ==
    \A t \in 1..Len(threads) :
        threads[t].gap = -1 \/ threads[t].gap >= min_interval

RECURSIVE CallsMade(_)
CallsMade(ts) ==
    IF ts = <<>> THEN 0 ELSE Head(ts).calls + CallsMade(Tail(ts))

\* C30: when no thread is inside fetch_page, request_count is the number
\* of fetch_page calls made, and the last requests of two threads are never
\* less than 60 / requests_per_minute seconds apart.
C30_SharedLimiterStateConsistent ==
    /\ (\A t \in 1..Len(threads) : threads[t].pc = "idle")
           => request_count = CallsMade(threads)
    /\ \A t, u \in 1..Len(threads) :
           (t # u /\ threads[t].last_req # -1 /\ threads[u].last_req # -1)
           => \/ threads[t].last_req - threads[u].last_req >= min_interval
              \/ threads[u].last_req - threads[t].last_req >= min_interval

\* C25: when a page fetch of scrape_city fails after all retries, the loop
\* stops there and the listings collected so far are returned.
C25_LegacyStopsAtFailedFetch ==
    \A i \in 1..Len(futures) :
        futures[i].failed_at # -1
        => /\ futures[i].state \in {"returned", "consumed"}
           /\ ~futures[i].exc
           /\ futures[i].offset = futures[i].failed_at

\* C26: for every transformed announcement handed to the relational loader,
\* the listing has the id of the announcement as provider_listing_id, its
\* city name as city, its image url as image_url, "<city>, <neighborhood>"
\* of those values as location, and the is_featured tag of the scraped
\* announcement as metadata.is_featured.
C26_ListingCarriesAnnouncement ==
    (cooked.fn = "listing" /\ cooked.kept) =>
        /\ cooked.listing.provider_listing_id = cooked.announcement.id
        /\ cooked.listing.city = cooked.announcement.city_name
        /\ cooked.listing.image_url = cooked.announcement.image_url
        /\ cooked.listing.location =
               StrVal(cooked.announcement.city_name.v \o <<Comma, Space>>
                          \o cooked.announcement.neighborhood.v)
        /\ cooked.listing.metadata.is_featured = raw.ann.is_featured

\* The main thread is inside run_streaming_pipeline, after _load_checkpoint.
InStreamingRun == orch_pc \in {"loaded", "have_cities", "batch", "collecting"}

\* The callback of future i returns in this step after the loader stored
\* the announcements of its city.
StoredNow(i) ==
    /\ Len(futures') = Len(futures)
    /\ futures[i].state # "consumed"
    /\ futures'[i].state = "consumed"
    /\ futures'[i].stored = "ok"

\* C27: during a streaming run the checkpoint file lists only cities that
\* are in processed_cities; processed_cities and total_announcements start
\* as the checkpoint has them (empty and 0 without one) and change only
\* when the loader has stored the batch of a city, by the id of that city
\* and by the size of that batch; and whatever is written to the checkpoint
\* file is the processed_cities of that moment.
C27_PersistBeforeMark ==
    /\ []((InStreamingRun /\ checkpoint_file.exists)
            => checkpoint_file.processed_cities \subseteq processed_cities)
    /\ [][(\/ processed_cities' # processed_cities
           \/ total_announcements' # total_announcements)
          => \/ /\ orch_pc = "ready"
                /\ orch_pc' = "loaded"
                /\ processed_cities' = checkpoint_file.processed_cities
                /\ total_announcements' = checkpoint_file.total_announcements
             \/ /\ orch_pc' \notin {"batch", "collecting"}
                /\ ~InStreamingRun
                /\ processed_cities' = {}
                /\ total_announcements' = 0
             \/ \E i \in 1..Len(futures) :
                    /\ StoredNow(i)
                    /\ processed_cities' = processed_cities
                           \cup {clean_string(futures[i].city.id)}
                    /\ total_announcements' = total_announcements
                           + Len(futures'[i].passed)]_vars
    /\ [][(checkpoint_file' # checkpoint_file /\ checkpoint_file'.exists)
          => checkpoint_file'.processed_cities = processed_cities']_vars

\* C27: a resumed run has stored the batch of a further city while the
\* checkpoint it started from is on disk.
C27_Witness ==
    /\ orch_pc = "collecting"
    /\ checkpoint_file.exists
    /\ resumed_from # {}
    /\ processed_cities # resumed_from
    /\ total_announcements > checkpoint_file.total_announcements

\* The number of rows of the j-th city in a state of the announcements file.
FileRows(file, j) == IF file.exists THEN file.rows[j] ELSE 0

\* C28: after a streaming run with the CSV loader was killed and left its
\* checkpoint on disk, a run with the CSV loader that resumes from it
\* appends no rows for a city that had rows in the announcements file when
\* the run was killed.
C28_NoDuplicateAfterKill ==
    (/\ killed_at.killed
     /\ killed_at.loader = "csv"
     /\ killed_at.checkpoint
     /\ loader_type = "csv"
     /\ InStreamingRun)
    => \A j \in 1..Len(site.codes) :
           FileRows(killed_at.announcements_csv, j) > 0
           => FileRows(announcements_csv, j)
                  = FileRows(killed_at.announcements_csv, j)

\* C29: whatever streaming runs wrote to the announcements file (a fresh
\* run over the file of a completed run, a run that failed, a run resumed
\* from a checkpoint), the file has exactly one header row, and that row is
\* its first.
C29_SingleHeaderFirst ==
    announcements_csv.exists =>
        /\ announcements_csv.headers = 1
        /\ announcements_csv.header_first

=============================================================================
